---- MODULE Spec2Model ----
(***************************************************************************)
(* Process simulator kernel: the field registry and orchestrator           *)
(* (simulator/process.py), the field model (simulator/variables.py) and    *)
(* the component framework (scenarios/hydro/components/component.py),      *)
(* run by the simpy event scheduler and exchanging values with a redis     *)
(* store that an external gateway (protocols/modbus.py) also writes.       *)
(***************************************************************************)
EXTENDS Integers, Sequences, FiniteSets, TLC

\* ------------------------------------------------------------------ bounds
NumFields == 3      \* plain fields declared in the configuration
MaxTick == 3        \* the scheduler is run until this tick (run(until=...))
MaxExt == 1         \* writes of other store clients during one run
ValMod == 3         \* field values are 0 .. ValMod-1
MaxInt == 4         \* ints written are -MaxInt .. MaxInt
MaxTenths == 37     \* floats written are k/10 for k in -MaxTenths .. MaxTenths
MaxQty == 2          \* fluid quantities given are -MaxQty .. MaxQty
MaxMembers == 2     \* longest member list given to a FieldCollection
MaxWireTick == 1    \* the wired components are run until this tick

\* ------------------------------------------------------- program constants
INPUT_BIT == 1
OUTPUT_BIT == 2
ANALOG_INPUT == 9
ANALOG_OUTPUT == 10
\* Field(..., io_type=None): a field declared without ioType
NoIoType == 0
\* the orchestrator and the monitor suspend with timeout(1)
OrchTimeoutMut == 1 + 1
OrchTimeout == 1
\* Component.__init__(env, updateTick=1)
DefaultUpdateTickMut == 1 + 1
DefaultUpdateTick == 1

FieldIds == 1 .. NumFields
\* field 1 is written by the writer component and read by the reader
\* component; field 2 is written by the reader component
FieldF == 1
FieldG == 2
IoTypes == {ANALOG_INPUT, ANALOG_OUTPUT, NoIoType}
Values == 0 .. (ValMod - 1)
Components == {"X", "Y"}
Periods == {DefaultUpdateTick, DefaultUpdateTick + 1}
DiscStates == {"OPEN", "CLOSED", "BROKEN"}

VARIABLES
    cfgIo,      \* configuration: ioType of every plain field
    cfgDisc,    \* configuration: an optional DisconnectorStateField record
    verbose,    \* Process(verbose=...)
    phase,      \* "boot", "wiring", "running", "failed", "crashed"
    err,        \* the exception that ended startup or the run, or "none"
    value,      \* Field.value of every plain field
    dValue,     \* value attribute of the disconnector object, or "absent"
    dObserver,  \* _observer of the disconnector object
    store,      \* the redis store: key -> token
    queue,      \* pending simpy events, in the order they will be popped
    now,        \* env.now
    running,    \* the process that holds control, or "none"
    pcO,        \* position of Process.process: "start", "push", "pull", "wait"
    registered, \* processes in the order env.process() registered them
    period,     \* UPDATE_TICK of every component (0: not constructed)
    tickLog,    \* processes resumed so far in the current tick, in order
    lastW,      \* tick and value of the writer component's latest write
    yReadTick,  \* tick of the reader component's latest step
    lastPull,   \* tick of the latest completed pull phase
    extOps,     \* number of writes by other store clients so far
    cPc,        \* breaker composite: "idle", "new", "live", "failed"
    cArgs,      \* arguments of BreakerStateField(fields, value)
    cMembers,   \* FieldCollection._fields
    fval,       \* Field.value of the Field objects a collection can hold
    cErr,       \* exception of the latest composite operation, or "none"
    cRead,      \* result of the latest read of BreakerStateField.value
    cLast,      \* the latest composite operation and its argument
    sDomain,    \* scalar field: "Digital" or "Analog", from its ioType
    sArg,       \* the Python value the callers of this run write
    sVal,       \* Field.value of the scalar field
    sTok,       \* what the store holds under the key of the field
    gVal,       \* what the gateway last decoded for the key
    sErr,       \* exception of the latest scalar operation, or "none"
    sLast,      \* the latest scalar operation
    flPc,       \* fluid field: "idle", "new", "live"
    flArg,      \* the fluid_dict argument of FluidField(...)
    flIn,       \* the latest fluid_dict given to the field
    flDict,     \* FluidField._fluidDict
    flQty,      \* result of the latest fluidQuantity(key)
    flErr,      \* exception of the latest fluid operation, or "none"
    flLast,     \* the latest fluid operation
    cfgHide,    \* the hide entry of every field of the configuration
    mLog,       \* fields logged by the latest monitor cycle, in order
    seed,       \* what the store held before the engine was constructed
    wArgs,      \* wiring: the dependencies given to each component
    wGuarded,   \* wiring: the caller catches a constructor's exception
    wBuilt,     \* wiring: outcome of each component's constructor
    wQueue,     \* wiring: events of the component processes
    wNow,       \* wiring: the clock
    wPhase,     \* wiring: "idle", "wiring", "aborted", "running", "crashed"
    wRan,       \* wiring: components whose update step has started
    rCfg,       \* the composite record of the configuration
    rPhase,     \* "idle", "boot", "started", "failed"
    rErr,       \* exception that left Process.__init__, or "none"
    rPublished, \* keys written to the store by the startup push
    hDir,       \* plant: direction bit of the ioType of every field
    hv,         \* plant: Field.value of every field
    hStore,     \* plant: the store, by the value each key decodes to
    hPos,       \* plant: Turbine._headValvePosition, _footValvePosition
    hQueue,     \* plant: events of the scheduler
    hNow,       \* plant: the clock
    hRunning,   \* plant: the process that holds control, or "none"
    hPc,        \* plant: the update method the running process is at
    hWrote,     \* plant: tick and value of the latest write of a field
    fCfg,       \* detector: filtering_size and filtering_nb of the model
    anomaly_score_history,  \* detector: the window of filtered scores
    last_ewma_value,        \* detector: the previous filtered score
    fRet        \* detector: what the latest filter_score call did

kernelVars == <<cfgIo, cfgDisc, verbose, phase, err, value, dValue, dObserver,
                store, queue, now, running, pcO, registered, period, tickLog,
                lastW, yReadTick, lastPull, extOps>>
compVars == <<cPc, cArgs, cMembers, fval, cErr, cRead, cLast>>
scalVars == <<sDomain, sArg, sVal, sTok, gVal, sErr, sLast>>
fluidVars == <<flPc, flArg, flIn, flDict, flQty, flErr, flLast>>
monVars == <<cfgHide, mLog>>
bootVars == <<seed>>
wireVars == <<wArgs, wGuarded, wBuilt, wQueue, wNow, wPhase, wRan>>
confVars == <<rCfg, rPhase, rErr, rPublished>>
hydroVars == <<hDir, hv, hStore, hPos, hQueue, hNow, hRunning, hPc, hWrote>>
filtVars == <<fCfg, anomaly_score_history, last_ewma_value, fRet>>
plantVars == <<monVars, bootVars, wireVars, confVars, hydroVars, filtVars>>
fmVars == <<compVars, scalVars, fluidVars, plantVars>>
vars == <<kernelVars, fmVars>>

\* ---------------------------------------------------------- field model
\* ioType.value & bit, for the FieldType values above
HasBit(io, bit) == (io \div bit) % 2 = 1

\* json.dumps of a small non-negative integer: its decimal text
Digits == <<"0", "1", "2", "3", "4", "5", "6", "7", "8", "9">>
\* redis GET of a key that does not exist returns None
NoKey == "<nil>"
\* a token that is not JSON (the text of a Python boolean)
Undecodable == "True"

ToJSONMut(v) == Digits[((v + 1) % ValMod) + 1]
ToJSON(v) == Digits[v + 1]

\* json.loads: TypeError on None, JSONDecodeError on text that is not JSON
FromJSON(tok) ==
    IF tok = NoKey THEN [err |-> "TypeError", val |-> 0]
    ELSE IF \E d \in 1 .. Len(Digits) : Digits[d] = tok
         THEN [err |-> "none",
               val |-> (CHOOSE d \in 1 .. Len(Digits) : Digits[d] = tok) - 1]
         ELSE [err |-> "JSONDecodeError", val |-> 0]

\* the observer callbacks bindTo can install, by what they return
ObserverReturns(obs) == obs = "accept"

\* DisconnectorStateField.__setattr__("value", v) on an object whose value
\* attribute is cur ("absent" before the first assignment)
DiscSetAttr(cur, obs, v) ==
    IF cur = "absent"
    THEN [val |-> cur, err |-> "AttributeError"]
    ELSE IF cur = "CLOSED" /\ v = "OPEN"
         THEN IF obs # "none" /\ ~ObserverReturns(obs)
              THEN [val |-> cur, err |-> "none"]
              ELSE [val |-> v, err |-> "none"]
         ELSE IF cur = "BROKEN"
              THEN [val |-> cur, err |-> "ValueError"]
              ELSE [val |-> v, err |-> "none"]

\* DisconnectorStateField.__init__: _observer = None, then Field.__init__
\* assigns name, ioType, value and hide through __setattr__
DiscConstruct(init) == DiscSetAttr("absent", "none", init)

\* ------------------------------------------------- registry / orchestrator
FieldSeq == [i \in 1 .. NumFields |-> i]

\* the filter of _publish_fields, for a field whose ioType is set
PublishedMut(io, forceAll) == TRUE
Published(io, forceAll) == HasBit(io, OUTPUT_BIT) \/ forceAll

\* the filter of _retrieve_fields, for a field whose ioType is set
RetrievedMut(io) == HasBit(io, INPUT_BIT) \/ HasBit(io, OUTPUT_BIT)
Retrieved(io) == HasBit(io, INPUT_BIT)

\* Process._publish_fields.  The dict comprehension evaluates
\* val.ioType.value for every field before the first broker.set, so one
\* field without ioType raises AttributeError and nothing is written, with
\* force_all too.  failAt = k > 0: the k-th broker.set raises.
PublishFields(io, vals, st, forceAll, failAt) ==
    IF \E i \in FieldIds : io[i] = NoIoType
    THEN [err |-> "AttributeError", store |-> st]
    ELSE LET Test(i) == Published(io[i], forceAll)
             sel == SelectSeq(FieldSeq, Test)
             failed == failAt \in 1 .. Len(sel)
             last == IF failed THEN failAt - 1 ELSE Len(sel)
             written == {sel[k] : k \in 1 .. last}
         IN  [err |-> IF failed THEN "ConnectionError" ELSE "none",
              store |-> [i \in FieldIds |->
                            IF i \in written THEN ToJSON(vals[i]) ELSE st[i]]]

\* Process._retrieve_fields: broker.get and Field.fromJSON for every
\* selected field in registry order; the first exception ends the loop.
RetrieveFieldsMut(io, vals, st) == [err |-> "none", value |-> vals]
RetrieveFields(io, vals, st) ==
    IF \E i \in FieldIds : io[i] = NoIoType
    THEN [err |-> "AttributeError", value |-> vals]
    ELSE LET Test(i) == Retrieved(io[i])
             sel == SelectSeq(FieldSeq, Test)
             bad == {k \in 1 .. Len(sel) : FromJSON(st[sel[k]]).err # "none"}
             first == IF bad = {} THEN Len(sel) + 1
                      ELSE CHOOSE k \in bad : \A j \in bad : k <= j
             loaded == {sel[k] : k \in 1 .. (first - 1)}
         IN  [err |-> IF bad = {} THEN "none" ELSE FromJSON(st[sel[first]]).err,
              value |-> [i \in FieldIds |->
                            IF i \in loaded THEN FromJSON(st[i]).val ELSE vals[i]]]

\* --------------------------------------------------------------- scheduler
\* env.process(generator): the Initialize event of the new process is
\* scheduled at the current time, behind the events already scheduled
RegisterProcessMut(q, p) == <<[time |-> 0, proc |-> p]>> \o q
RegisterProcess(q, p) == Append(q, [time |-> 0, proc |-> p])

\* env.timeout(delay) at time t: simpy orders events by (time, priority,
\* event id); the new event has the largest id, so it goes behind every
\* pending event whose time is not later
InsertMut(q, e) ==
    LET k == Cardinality({i \in 1 .. Len(q) : q[i].time < e.time})
    IN  SubSeq(q, 1, k) \o <<e>> \o SubSeq(q, k + 1, Len(q))
Insert(q, e) ==
    LET k == Cardinality({i \in 1 .. Len(q) : q[i].time <= e.time})
    IN  SubSeq(q, 1, k) \o <<e>> \o SubSeq(q, k + 1, Len(q))

TimeoutMut(q, t, delay, p) ==
    Insert(q, [time |-> t + delay + 1, proc |-> p])
Timeout(q, t, delay, p) == Insert(q, [time |-> t + delay, proc |-> p])

PeriodOf(p) == IF p \in Components THEN period[p] ELSE OrchTimeout

RegIdx(p) == CHOOSE i \in 1 .. Len(registered) : registered[i] = p

IsRegistered(p) == \E i \in 1 .. Len(registered) : registered[i] = p

\* ------------------------------------------------------------------- Init
NoDisc == [decl |-> FALSE, io |-> NoIoType, init |-> "OPEN"]

\* the objects a member list can hold: Field objects and one object that is
\* not a Field (a str)
Pool == {"f0", "f1"}
NonField == "x"
BreakerStates == {"CLOSED", "OPEN", "TRANSITION", "BROKEN"}
NoOp == [op |-> "none", arg |-> "none"]

\* val.get("hide"): True, False, or None when the entry is absent
HideFlags == {"hidden", "shown", "absent"}

\* a configuration without hide entries, before the first monitor cycle
MonIdle ==
    /\ cfgHide = [i \in FieldIds |-> "absent"]
    /\ mLog = <<>>

\* an engine constructed over an empty store
BootIdle == seed = [i \in FieldIds |-> NoKey]

\* the components hydro.py constructs, in its order
WireOrderMut == <<"Turbine", "HydraulicCentral", "Cooling", "LevelRegulation">>
WireOrder == <<"LevelRegulation", "HydraulicCentral", "Cooling", "Turbine">>
WComponents == {WireOrder[k] : k \in 1 .. Len(WireOrder)}

\* no component constructed
WireIdle ==
    /\ wArgs = [c \in WComponents |-> <<>>]
    /\ wGuarded = FALSE
    /\ wBuilt = [c \in WComponents |-> "no"]
    /\ wQueue = <<>>
    /\ wNow = 0
    /\ wPhase = "idle"
    /\ wRan = {}

\* a configuration without composite records
NoRecord == [type |-> "none", value |-> <<>>, isStr |-> FALSE,
             member |-> "declared", last |-> FALSE]

ConfIdle ==
    /\ rCfg = NoRecord
    /\ rPhase = "idle"
    /\ rErr = "none"
    /\ rPublished = {}

\* no plant
HydroIdle ==
    /\ hDir = <<>>
    /\ hv = <<>>
    /\ hStore = <<>>
    /\ hPos = <<>>
    /\ hQueue = <<>>
    /\ hNow = 0
    /\ hRunning = "none"
    /\ hPc = 0
    /\ hWrote = <<>>

\* SyscallAnomalyModel before it is built, and before its first call
NoFilter == [size |-> 0, nb |-> 0]
None == [set |-> FALSE, v |-> 0]
NoCall == [calls |-> 0, raw |-> 0, ret |-> 0, err |-> "none", prev |-> <<>>]

\* no detector model
FilterIdle ==
    /\ fCfg = NoFilter
    /\ anomaly_score_history = <<>>
    /\ last_ewma_value = None
    /\ fRet = NoCall

PlantIdle ==
    MonIdle /\ BootIdle /\ WireIdle /\ ConfIdle /\ HydroIdle /\ FilterIdle

\* the field-model objects of the other specifications, not built here
CompIdle ==
    /\ cPc = "idle"
    /\ cArgs = [fields |-> <<>>, state |-> "OPEN"]
    /\ cMembers = <<>>
    /\ fval = [f \in Pool |-> FALSE]
    /\ cErr = "none"
    /\ cRead = "none"
    /\ cLast = NoOp

\* Python values: bool (v is 0 or 1), int v, float v / 10^e, None, a str
PyBool(b) == [kind |-> "bool", v |-> IF b THEN 1 ELSE 0, e |-> 0]
PyInt(n) == [kind |-> "int", v |-> n, e |-> 0]
PyFloat(v, e) == [kind |-> "float", v |-> v, e |-> e]
PyNone == [kind |-> "none", v |-> 0, e |-> 0]
PyStr == [kind |-> "str", v |-> 0, e |-> 0]

\* a value of a store key: absent, or a sequence of characters
NoTok == [present |-> FALSE, bytes |-> <<>>]
Tok(bytes) == [present |-> TRUE, bytes |-> bytes]

ScalIdle ==
    /\ sDomain = "none"
    /\ sArg = PyNone
    /\ sVal = PyNone
    /\ sTok = NoTok
    /\ gVal = PyNone
    /\ sErr = "none"
    /\ sLast = "none"

\* a fluid_dict argument: None (the default) or a dict
NoDict == [given |-> FALSE, m |-> <<>>]
Dict(m) == [given |-> TRUE, m |-> m]
\* a quantity val / total, kept as the pair of the division
Frac(num, den) == [num |-> num, den |-> den]

FluidIdle ==
    /\ flPc = "idle"
    /\ flArg = NoDict
    /\ flIn = NoDict
    /\ flDict = NoDict
    /\ flQty = Frac(0, 1)
    /\ flErr = "none"
    /\ flLast = "none"

Init ==
    /\ PlantIdle
    /\ CompIdle
    /\ ScalIdle
    /\ FluidIdle
    /\ cfgIo \in [FieldIds -> IoTypes]
    /\ cfgDisc \in {NoDisc} \cup
                   [decl : {TRUE}, io : {ANALOG_INPUT}, init : DiscStates]
    /\ verbose \in BOOLEAN
    /\ phase = "boot"
    /\ err = "none"
    /\ value = [i \in FieldIds |-> 0]
    /\ dValue = "absent"
    /\ dObserver = "none"
    /\ store = [i \in FieldIds |-> NoKey]
    /\ queue = <<>>
    /\ now = 0
    /\ running = "none"
    /\ pcO = "start"
    /\ registered = <<>>
    /\ period = [c \in Components |-> 0]
    /\ tickLog = <<>>
    /\ lastW = [tick |-> -1, val |-> 0]
    /\ yReadTick = -1
    /\ lastPull = -1
    /\ extOps = 0

schedVars == <<queue, now, running, pcO, registered, period, tickLog>>
histVars == <<lastW, yReadTick, lastPull>>
cfgVars == <<cfgIo, cfgDisc, verbose>>
discVars == <<dValue, dObserver>>

\* --------------------------------------------------------------- startup
\* Process.__init__: _init_all_fields builds every field of the
\* configuration and publishes all of them, then the orchestrator process
\* and, if verbose, the monitor process are registered.
InitAllFields ==
    /\ UNCHANGED fmVars
    /\ phase = "boot"
    /\ LET made == IF cfgDisc.decl THEN DiscConstruct(cfgDisc.init)
                   ELSE [val |-> "absent", err |-> "none"]
           pub == PublishFields(cfgIo, value, store, TRUE, 0)
           q1 == RegisterProcess(<<>>, "O")
       IN  IF made.err # "none"
           THEN /\ phase' = "failed"
                /\ err' = made.err
                /\ UNCHANGED <<store, queue, registered>>
           ELSE IF pub.err # "none"
           THEN /\ phase' = "failed"
                /\ err' = pub.err
                /\ UNCHANGED <<store, queue, registered>>
           ELSE /\ phase' = "wiring"
                /\ err' = "none"
                /\ store' = pub.store
                /\ queue' = IF verbose THEN RegisterProcess(q1, "M") ELSE q1
                /\ registered' = IF verbose THEN <<"O", "M">> ELSE <<"O">>
    /\ UNCHANGED <<cfgVars, value, discVars, now, running, pcO, period,
                   tickLog, histVars, extOps>>

\* Component.__init__(env, updateTick): registers the component's process
RegisterComponent(c, p) ==
    /\ UNCHANGED fmVars
    /\ phase = "wiring"
    /\ ~IsRegistered(c)
    /\ period' = [period EXCEPT ![c] = p]
    /\ queue' = RegisterProcess(queue, c)
    /\ registered' = Append(registered, c)
    /\ UNCHANGED <<cfgVars, phase, err, value, discVars, store, now, running,
                   pcO, tickLog, histVars, extOps>>

\* world.run(), once every component of the wiring script is constructed
Run ==
    /\ UNCHANGED fmVars
    /\ phase = "wiring"
    /\ \A c \in Components : IsRegistered(c)
    /\ phase' = "running"
    /\ UNCHANGED <<cfgVars, err, value, discVars, store, schedVars, histVars,
                   extOps>>

\* ------------------------------------------------------------- scheduling
\* Environment.step(): pop the next event, advance the clock to its time and
\* resume the process that waits for it
EnvStep ==
    /\ UNCHANGED fmVars
    /\ phase = "running"
    /\ running = "none"
    /\ queue # <<>>
    /\ Head(queue).time <= MaxTick
    /\ LET ev == Head(queue)
       IN  /\ now' = ev.time
           /\ running' = ev.proc
           /\ queue' = Tail(queue)
           /\ tickLog' = IF ev.time > now THEN <<ev.proc>>
                         ELSE Append(tickLog, ev.proc)
           /\ pcO' = IF ev.proc # "O" THEN pcO
                     ELSE IF pcO = "start" THEN "pull" ELSE "push"
    /\ UNCHANGED <<cfgVars, phase, err, value, discVars, store, registered,
                   period, histVars, extOps>>

\* Process.process, after the yield: _publish_fields().  An exception of
\* broker.set is not caught: it leaves the generator and env.run().
OrchPush ==
    /\ UNCHANGED fmVars
    /\ phase = "running"
    /\ running = "O"
    /\ pcO = "push"
    /\ \E failAt \in 0 .. NumFields :
          LET pub == PublishFields(cfgIo, value, store, FALSE, failAt)
          IN  /\ store' = pub.store
              /\ err' = pub.err
              /\ IF pub.err = "none"
                 THEN /\ pcO' = "pull"
                      /\ UNCHANGED <<phase, running>>
                 ELSE /\ phase' = "crashed"
                      /\ running' = "none"
                      /\ UNCHANGED pcO
    /\ UNCHANGED <<cfgVars, value, discVars, queue, now, registered, period,
                   tickLog, histVars, extOps>>

\* Process.process: _retrieve_fields(), then yield env.timeout(1).  An
\* exception of json.loads is not caught either.
OrchPull ==
    /\ UNCHANGED fmVars
    /\ phase = "running"
    /\ running = "O"
    /\ pcO = "pull"
    /\ LET got == RetrieveFields(cfgIo, value, store)
       IN  /\ value' = got.value
           /\ err' = got.err
           /\ running' = "none"
           /\ IF got.err = "none"
              THEN /\ pcO' = "wait"
                   /\ queue' = Timeout(queue, now, OrchTimeout, "O")
                   /\ lastPull' = now
                   /\ UNCHANGED phase
              ELSE /\ phase' = "crashed"
                   /\ UNCHANGED <<pcO, queue, lastPull>>
    /\ UNCHANGED <<cfgVars, discVars, store, now, registered, period, tickLog,
                   lastW, yReadTick, extOps>>

\* the fields of the registry with "not val.hide", in registry order
LoggedMut(hide) == SelectSeq(FieldSeq, LAMBDA i : hide[i] = "shown")
Logged(hide) == SelectSeq(FieldSeq, LAMBDA i : hide[i] # "hidden")

\* Process.monitor: log every field that is not hidden, yield env.timeout(1)
MonitorStep ==
    /\ UNCHANGED <<compVars, scalVars, fluidVars, cfgHide, bootVars, wireVars,
                   confVars, hydroVars, filtVars>>
    /\ phase = "running"
    /\ running = "M"
    /\ mLog' = Logged(cfgHide)
    /\ running' = "none"
    /\ queue' = Timeout(queue, now, OrchTimeout, "M")
    /\ UNCHANGED <<cfgVars, phase, err, value, discVars, store, now, pcO,
                   registered, period, tickLog, histVars, extOps>>

\* a component whose update step writes field F (it counts up, as the oil
\* temperature does), then yield env.timeout(UPDATE_TICK)
WriterStep ==
    /\ UNCHANGED fmVars
    /\ phase = "running"
    /\ running = "X"
    /\ LET v == (value[FieldF] + 1) % ValMod
       IN  /\ value' = [value EXCEPT ![FieldF] = v]
           /\ lastW' = [tick |-> now, val |-> v]
    /\ running' = "none"
    /\ queue' = Timeout(queue, now, period["X"], "X")
    /\ UNCHANGED <<cfgVars, phase, err, discVars, store, now, pcO, registered,
                   period, tickLog, yReadTick, lastPull, extOps>>

\* a component whose update step reads field F and copies it to its own
\* field G (as the pump feedback copies the pump command)
ReaderStep ==
    /\ UNCHANGED fmVars
    /\ phase = "running"
    /\ running = "Y"
    /\ value' = [value EXCEPT ![FieldG] = value[FieldF]]
    /\ yReadTick' = now
    /\ running' = "none"
    /\ queue' = Timeout(queue, now, period["Y"], "Y")
    /\ UNCHANGED <<cfgVars, phase, err, discVars, store, now, pcO, registered,
                   period, tickLog, lastW, lastPull, extOps>>

\* ------------------------------------------------------------ environment
\* another client of the store (the gateway's setValues, a DEL or a flush,
\* a writer of text that is not JSON) changes one key
ExtTokens == {ToJSON(1), Undecodable, NoKey}

ExternalWrite(i, tok) ==
    /\ UNCHANGED fmVars
    /\ phase \in {"wiring", "running"}
    /\ extOps < MaxExt
    /\ store[i] # tok
    /\ store' = [store EXCEPT ![i] = tok]
    /\ extOps' = extOps + 1
    /\ UNCHANGED <<cfgVars, phase, err, value, discVars, schedVars, histVars>>

Next ==
    \/ InitAllFields
    \/ \E c \in Components, p \in Periods : RegisterComponent(c, p)
    \/ Run
    \/ EnvStep
    \/ OrchPush
    \/ OrchPull
    \/ MonitorStep
    \/ WriterStep
    \/ ReaderStep
    \/ \E i \in FieldIds, tok \in ExtTokens : ExternalWrite(i, tok)

Spec == Init /\ [][Next]_vars

TypeOK ==
    /\ cfgIo \in [FieldIds -> IoTypes]
    /\ phase \in {"boot", "wiring", "running", "failed", "crashed"}
    /\ value \in [FieldIds -> Values]
    /\ dValue \in DiscStates \cup {"absent"}
    /\ now \in 0 .. MaxTick
    /\ running \in {"none", "O", "M", "X", "Y"}
    /\ pcO \in {"start", "push", "pull", "wait"}

\* ------------------------------------------------------------- vocabulary
IsInputField(i) == cfgIo[i] = ANALOG_INPUT
IsOutputField(i) == cfgIo[i] = ANALOG_OUTPUT
IsDirectionless(i) == cfgIo[i] = NoIoType
Started == phase \in {"running", "crashed"}
\* the step in which the reader component runs its update step
ReaderRuns == running = "Y" /\ running' = "none"
\* the step in which the orchestrator runs its pull phase
PullStep == running = "O" /\ pcO = "pull" /\ running' = "none"
\* the step in which the orchestrator runs its push phase
PushStep == running = "O" /\ pcO = "push" /\ (pcO' = "pull" \/ phase' = "crashed")
\* a step of the simulator, as opposed to a step of another store client
SimulatorStep == extOps' = extOps
BothPeriodOne == period["X"] = DefaultUpdateTick /\ period["Y"] = DefaultUpdateTick
Observers == {"none", "accept", "reject"}

\* ----------------------------------------------------------------- C1
\* C1 as stated: with X and Y of update period 1, Y's step reads the value
\* X wrote in the same tick when X was registered first, and the value X
\* wrote in the previous tick (the initial value at tick 0) when X was
\* registered after Y, whatever the direction of F.
C1_TickOrderingAnyField ==
    [][(ReaderRuns /\ BothPeriodOne) =>
          IF RegIdx("X") < RegIdx("Y")
          THEN lastW.tick = now /\ value'[FieldG] = lastW.val
          ELSE lastW.tick = now - 1 /\ value'[FieldG] = lastW.val]_vars

\* C1 amended: the same, but when X is registered after Y the value read is
\* X's previous-tick value only if F is not an Input field (the pull at the
\* start of the tick replaces the value of an Input field).
C1_TickOrdering ==
    [][(ReaderRuns /\ BothPeriodOne) =>
          IF RegIdx("X") < RegIdx("Y")
          THEN lastW.tick = now /\ value'[FieldG] = lastW.val
          ELSE /\ lastW.tick = now - 1
               /\ ~IsInputField(FieldF) => value'[FieldG] = lastW.val]_vars

\* Y, registered before X, has just read at tick >= 1 the value X wrote one
\* tick earlier
C1_Witness ==
    /\ Started /\ BothPeriodOne
    /\ RegIdx("Y") < RegIdx("X")
    /\ ~IsInputField(FieldF)
    /\ now >= 1 /\ yReadTick = now /\ lastW.tick = now - 1
    /\ value[FieldG] = lastW.val /\ lastW.val # 0

\* ----------------------------------------------------------------- C2
\* C2 as stated: the processes resumed in a tick run in registration order,
\* each at most once, whatever their update periods.
C2_RegistrationOrderAnyPeriod ==
    Started =>
        \A i, j \in 1 .. Len(tickLog) :
            i < j => RegIdx(tickLog[i]) < RegIdx(tickLog[j])

\* C2 amended: the processes resumed in a tick run each at most once, and
\* any two of them with the same update period run in registration order.
C2_RegistrationOrder ==
    Started =>
        \A i, j \in 1 .. Len(tickLog) :
            i < j => /\ tickLog[i] # tickLog[j]
                     /\ PeriodOf(tickLog[i]) = PeriodOf(tickLog[j])
                           => RegIdx(tickLog[i]) < RegIdx(tickLog[j])

\* tick 2 of a wiring with components of different periods: every process
\* has been resumed
C2_Witness ==
    /\ Started /\ now >= 2
    /\ period["X"] # period["Y"]
    /\ Len(tickLog) = Len(registered)
    /\ Len(registered) = 4

\* ----------------------------------------------------------------- C3
OrchCycleOrder ==
    /\ pcO' # pcO => <<pcO, pcO'>> \in {<<"start", "pull">>, <<"pull", "wait">>,
                                         <<"wait", "push">>, <<"push", "pull">>}
    /\ (pcO = "wait" /\ pcO' = "push") => now' = lastPull + 1
    /\ (pcO = "pull" /\ pcO' = "wait") =>
          \A i \in FieldIds : IsInputField(i) => value'[i] = FromJSON(store[i]).val
    /\ (pcO = "push" /\ pcO' = "pull") =>
          \A i \in FieldIds : IsOutputField(i) => store'[i] = ToJSON(value[i])

\* C3 as stated: each cycle pulls every Input field, suspends one tick,
\* pushes every Output field; a push starts one tick after a pull, and all
\* other processes of a tick run after the pull of that tick.
C3_CycleAnyPeriod ==
    [][/\ OrchCycleOrder
       /\ tickLog' # <<>> => tickLog'[1] = "O"]_vars

\* C3 amended: the same, for the other processes of update period 1; a
\* component of a longer period can run before the pull of its tick.
C3_Cycle ==
    [][/\ OrchCycleOrder
       /\ \A k \in 1 .. Len(tickLog') :
             (tickLog'[k] # "O" /\ PeriodOf(tickLog'[k]) = 1)
                => \E j \in 1 .. (k - 1) : tickLog'[j] = "O"]_vars

\* a push has just completed, one tick after the pull before it, with the
\* monitor and both components run in between
C3_Witness ==
    /\ phase = "running" /\ running = "O" /\ pcO = "pull"
    /\ now >= 1 /\ lastPull = now - 1
    /\ BothPeriodOne /\ Len(registered) = 4

\* ----------------------------------------------------------------- C4
\* C4: startup writes the initial value of every declared field, whatever
\* its direction, to the store under its name, and no forced push happens
\* after startup (a later push leaves every key that is not an Output key).
C4_StartupSnapshot ==
    [][/\ (phase = "boot" /\ phase' # "boot" /\ ~cfgDisc.decl) =>
             /\ phase' = "wiring"
             /\ \A i \in FieldIds : store'[i] = ToJSON(value'[i])
       /\ (phase # "boot" /\ PushStep) =>
             \A i \in FieldIds : ~IsOutputField(i) => store'[i] = store[i]]_vars

\* ----------------------------------------------------------------- C5
\* C5: a pull phase that meets a missing key or an undecodable value keeps
\* that field's value, still loads the other Input fields, and raises no
\* error out of the orchestrator's cycle.
C5_PullFailureNonFatal ==
    [][PullStep =>
          /\ phase' = "running"
          /\ err' = "none"
          /\ \A i \in FieldIds :
                value'[i] = IF IsInputField(i) /\ FromJSON(store[i]).err = "none"
                            THEN FromJSON(store[i]).val
                            ELSE value[i]]_vars

\* ----------------------------------------------------------------- C6
\* C6: a push phase in which one store write fails still writes the other
\* Output fields, and the orchestrator goes on to its pull with the
\* scheduler running.
C6_PushFailureNonFatal ==
    [][PushStep =>
          /\ phase' = "running"
          /\ pcO' = "pull"
          /\ Cardinality({i \in FieldIds :
                 IsOutputField(i) /\ store'[i] # ToJSON(value[i])}) <= 1]_vars

\* ----------------------------------------------------------------- C7
\* C7: a pull phase changes the value of Input fields only; the value of
\* every Output and directionless field and the store are unchanged.
C7_PullFrame ==
    [][PullStep =>
          /\ store' = store
          /\ dValue' = dValue
          /\ \A i \in FieldIds : ~IsInputField(i) => value'[i] = value[i]]_vars

\* a pull has completed that loaded a value another client wrote into an
\* Input field no component writes, in a registry that has an Output field
C7_Witness ==
    /\ phase = "running" /\ pcO = "wait" /\ lastPull = now
    /\ IsInputField(NumFields) /\ value[NumFields] = 1
    /\ \E j \in FieldIds : IsOutputField(j)

\* ----------------------------------------------------------------- C8
\* C8: after startup a step of the simulator changes only keys of Output
\* fields in the store, and a push phase changes no field value.
C8_PushFrame ==
    [][(phase # "boot" /\ SimulatorStep) =>
          /\ \A i \in FieldIds : store'[i] # store[i] => IsOutputField(i)
          /\ PushStep => (value' = value /\ dValue' = dValue)]_vars

\* a push has just written the writer component's new value of the Output
\* field F, in a registry that has an Input field
C8_Witness ==
    /\ phase = "running" /\ running = "O" /\ pcO = "pull" /\ extOps = 0
    /\ IsOutputField(FieldF) /\ value[FieldF] # 0
    /\ store[FieldF] = ToJSON(value[FieldF])
    /\ \E j \in FieldIds : IsInputField(j)

\* ----------------------------------------------------------------- C9
\* C9: with a field declared without ioType, building the field set, the
\* startup push and every pull and push complete without error, and no
\* step of the simulator after startup writes the key of that field.
C9_DirectionlessLegal ==
    [][(~cfgDisc.decl /\ \E i \in FieldIds : IsDirectionless(i)) =>
          /\ phase' # "failed"
          /\ err' # "AttributeError"
          /\ (phase # "boot" /\ SimulatorStep) =>
                \A i \in FieldIds : IsDirectionless(i) => store'[i] = store[i]]_vars

\* ---------------------------------------------------------------- C10
\* C10: for the disconnector field the program has built with the value
\* Closed, a write of Open raises no error and is applied if and only if no
\* observer is bound or the bound observer returns true; otherwise the
\* value stays Closed.
C10_ClosedToOpenGated ==
    (cfgDisc.decl /\ cfgDisc.init = "CLOSED" /\ phase # "boot") =>
        \A obs \in Observers :
            LET w == DiscSetAttr(dValue, obs, "OPEN")
            IN  /\ w.err = "none"
                /\ w.val = IF obs = "none" \/ ObserverReturns(obs)
                           THEN "OPEN" ELSE "CLOSED"

\* ---------------------------------------------------------------- C11
\* C11: once the disconnector field the program has built holds Broken, a
\* write of any value, with any observer, fails with the explicit
\* transition error and the value stays Broken.
C11_BrokenTerminal ==
    (cfgDisc.decl /\ cfgDisc.init = "BROKEN" /\ phase # "boot") =>
        /\ dValue = "BROKEN"
        /\ \A obs \in Observers, v \in DiscStates :
              LET w == DiscSetAttr(dValue, obs, v)
              IN  w.err = "ValueError" /\ w.val = "BROKEN"

\* ---------------------------------------------------------------- C12
\* C12: on the disconnector field the program has built with Open or
\* Closed, every write other than Closed to Open is applied whatever the
\* observer would return, and raises no error.
C12_UngatedTransitions ==
    (cfgDisc.decl /\ cfgDisc.init \in {"OPEN", "CLOSED"} /\ phase # "boot") =>
        \A obs \in Observers, v \in DiscStates :
            ~(cfgDisc.init = "CLOSED" /\ v = "OPEN") =>
                LET w == DiscSetAttr(dValue, obs, v)
                IN  w.err = "none" /\ w.val = v

\* ---------------------------------------------------------------- C13
\* C13: constructing a disconnector field with the initial state s raises
\* no error, and the field then holds s.
C13_ConstructionSucceeds ==
    (cfgDisc.decl /\ phase # "boot") =>
        /\ err = "none"
        /\ dValue = cfgDisc.init

\* ====================================================================
\* The breaker composite and its FieldCollection (variables.py 69-94,
\* 184-229)
\* ====================================================================

\* BreakerStateType: the pair of member booleans of each enum value
BreakerStateTypeMut(s) ==
    CASE s = "CLOSED"     -> <<TRUE, FALSE>>
      [] s = "OPEN"       -> <<FALSE, TRUE>>
      [] s = "TRANSITION" -> <<FALSE, FALSE>>
      [] s = "BROKEN"     -> <<TRUE, TRUE>>
BreakerStateType(s) ==
    CASE s = "CLOSED"     -> <<FALSE, TRUE>>
      [] s = "OPEN"       -> <<TRUE, FALSE>>
      [] s = "TRANSITION" -> <<FALSE, FALSE>>
      [] s = "BROKEN"     -> <<TRUE, TRUE>>

\* BreakerStateType(pair): the enum value looked up by its pair
BreakerStateOf(pair) ==
    CHOOSE s \in BreakerStates : BreakerStateType(s) = pair

\* every member list a caller can hand over, up to MaxMembers entries
MemberLists ==
    UNION {[1 .. n -> Pool \cup {NonField}] : n \in 0 .. MaxMembers}

\* FieldCollection.__init__: the loop over the members; a member that is
\* not a Field reaches `raise ValueError(field.name)`, whose argument
\* already fails on an object without a name
CollectionInit(fields) ==
    IF \E k \in 1 .. Len(fields) : fields[k] \notin Pool
    THEN "AttributeError" ELSE "none"

\* BreakerStateField.value (getter): fields[0].value, then fields[1].value,
\* then the enum lookup
BreakerGet(members, fv) ==
    IF Len(members) = 0 THEN [err |-> "IndexError", val |-> "none"]
    ELSE IF members[1] \notin Pool
         THEN [err |-> "AttributeError", val |-> "none"]
    ELSE IF Len(members) = 1 THEN [err |-> "IndexError", val |-> "none"]
    ELSE IF members[2] \notin Pool
         THEN [err |-> "AttributeError", val |-> "none"]
    ELSE [err |-> "none",
          val |-> BreakerStateOf(<<fv[members[1]], fv[members[2]]>>)]

\* BreakerStateField.value (setter): unpack exactly two members, then assign
\* the two booleans in turn; the first assignment stays if the second fails
BreakerSet(members, fv, s) ==
    IF Len(members) # 2 THEN [err |-> "ValueError", fv |-> fv]
    ELSE IF members[1] \notin Pool THEN [err |-> "AttributeError", fv |-> fv]
    ELSE LET fv1 == [fv EXCEPT ![members[1]] = BreakerStateType(s)[1]]
         IN  IF members[2] \notin Pool
             THEN [err |-> "AttributeError", fv |-> fv1]
             ELSE [err |-> "none",
                   fv |-> [fv1 EXCEPT ![members[2]] = BreakerStateType(s)[2]]]

\* BreakerStateField(fields, value) with a BreakerStateType value
BreakerConstruct ==
    /\ UNCHANGED fluidVars
    /\ UNCHANGED scalVars
    /\ cPc = "new"
    /\ LET e == CollectionInit(cArgs.fields)
           w == BreakerSet(cArgs.fields, fval, cArgs.state)
       IN  IF e # "none"
           THEN /\ cErr' = e
                /\ cPc' = "failed"
                /\ UNCHANGED <<cMembers, fval, cLast>>
           ELSE /\ cMembers' = cArgs.fields
                /\ fval' = w.fv
                /\ cErr' = w.err
                /\ cPc' = IF w.err = "none" THEN "live" ELSE "failed"
                /\ cLast' = [op |-> "write", arg |-> cArgs.state]
    /\ UNCHANGED <<cArgs, cRead>>
    /\ UNCHANGED <<kernelVars, plantVars>>

\* breaker.value = s
BreakerWrite(s) ==
    /\ UNCHANGED fluidVars
    /\ UNCHANGED scalVars
    /\ cPc = "live"
    /\ LET w == BreakerSet(cMembers, fval, s)
       IN  /\ fval' = w.fv
           /\ cErr' = w.err
    /\ cLast' = [op |-> "write", arg |-> s]
    /\ UNCHANGED <<cPc, cArgs, cMembers, cRead>>
    /\ UNCHANGED <<kernelVars, plantVars>>

\* f.value = b on one of the Field objects
MemberWrite(f, b) ==
    /\ UNCHANGED fluidVars
    /\ UNCHANGED scalVars
    /\ cPc = "live"
    /\ fval' = [fval EXCEPT ![f] = b]
    /\ cErr' = "none"
    /\ cLast' = [op |-> "member", arg |-> f]
    /\ UNCHANGED <<cPc, cArgs, cMembers, cRead>>
    /\ UNCHANGED <<kernelVars, plantVars>>

\* breaker.value
BreakerRead ==
    /\ UNCHANGED fluidVars
    /\ UNCHANGED scalVars
    /\ cPc = "live"
    /\ LET r == BreakerGet(cMembers, fval)
       IN  /\ cRead' = r.val
           /\ cErr' = r.err
    /\ cLast' = [op |-> "read", arg |-> "none"]
    /\ UNCHANGED <<cPc, cArgs, cMembers, fval>>
    /\ UNCHANGED <<kernelVars, plantVars>>

\* collection.fields = fields: the public setter stores what it is given
SetFields(fields) ==
    /\ UNCHANGED fluidVars
    /\ UNCHANGED scalVars
    /\ cPc = "live"
    /\ cMembers' = fields
    /\ cErr' = "none"
    /\ cLast' = [op |-> "fields", arg |-> "none"]
    /\ UNCHANGED <<cPc, cArgs, fval, cRead>>
    /\ UNCHANGED <<kernelVars, plantVars>>

\* the kernel of the other specifications, not started here
KernelIdle ==
    /\ cfgIo = [i \in FieldIds |-> NoIoType]
    /\ cfgDisc = NoDisc
    /\ verbose = FALSE
    /\ phase = "boot"
    /\ err = "none"
    /\ value = [i \in FieldIds |-> 0]
    /\ dValue = "absent"
    /\ dObserver = "none"
    /\ store = [i \in FieldIds |-> NoKey]
    /\ queue = <<>>
    /\ now = 0
    /\ running = "none"
    /\ pcO = "pull"
    /\ registered = <<>>
    /\ period = [c \in Components |-> DefaultUpdateTick]
    /\ tickLog = <<>>
    /\ lastW = [i \in FieldIds |-> 0]
    /\ yReadTick = 0
    /\ lastPull = 0
    /\ extOps = 0

InitComposite ==
    /\ PlantIdle
    /\ KernelIdle
    /\ ScalIdle
    /\ FluidIdle
    /\ cPc = "new"
    /\ cArgs \in [fields : MemberLists, state : BreakerStates]
    /\ cMembers = <<>>
    /\ fval \in [Pool -> BOOLEAN]
    /\ cErr = "none"
    /\ cRead = "none"
    /\ cLast = NoOp

NextComposite ==
    \/ BreakerConstruct
    \/ \E s \in BreakerStates : BreakerWrite(s)
    \/ \E f \in Pool, b \in BOOLEAN : MemberWrite(f, b)
    \/ BreakerRead
    \/ \E fields \in MemberLists : SetFields(fields)

SpecComposite == InitComposite /\ [][NextComposite]_vars

\* a member list of two distinct Field objects
TwoMembers(members) ==
    /\ Len(members) = 2
    /\ members[1] \in Pool
    /\ members[2] \in Pool
    /\ members[1] # members[2]

\* ---------------------------------------------------------------- C14
\* C14: on a breaker composite of two member fields, whatever the members
\* held before, a write of s (at construction or later) raises no error and
\* leaves the members holding the pair of s, Closed=(false,true),
\* Open=(true,false), Transition=(false,false), Broken=(true,true), and a
\* read then yields s; and a read yields the enum value of whatever pair
\* the members hold, including pairs written member by member.
C14_PairOf(s) ==
    CASE s = "CLOSED"     -> <<FALSE, TRUE>>
      [] s = "OPEN"       -> <<TRUE, FALSE>>
      [] s = "TRANSITION" -> <<FALSE, FALSE>>
      [] s = "BROKEN"     -> <<TRUE, TRUE>>
C14_BreakerRoundTrip ==
    [][TwoMembers(cMembers') =>
          /\ (cLast'.op = "write" /\ cPc # "failed") =>
                /\ cErr' = "none"
                /\ cPc' = "live"
                /\ <<fval'[cMembers'[1]], fval'[cMembers'[2]]>>
                      = C14_PairOf(cLast'.arg)
                /\ BreakerGet(cMembers', fval')
                      = [err |-> "none", val |-> cLast'.arg]
          /\ cLast'.op = "read" =>
                /\ cErr' = "none"
                /\ <<fval'[cMembers'[1]], fval'[cMembers'[2]]>>
                      = C14_PairOf(cRead')]_vars
C14_Witness ==
    /\ cPc = "live" /\ TwoMembers(cMembers)
    /\ cArgs.state = "CLOSED"
    /\ cLast.op = "read" /\ cRead = "BROKEN"
    /\ fval[cMembers[1]] /\ fval[cMembers[2]]

\* ---------------------------------------------------------------- C15
\* C15: every member of a constructed collection is a Field instance and
\* the member list is the one given at construction, in every state the
\* public interface can reach.
C15_MembershipImmutable ==
    cPc = "live" =>
        /\ cMembers = cArgs.fields
        /\ \A k \in 1 .. Len(cMembers) : cMembers[k] \in Pool

\* ====================================================================
\* A scalar field between the simulator and the gateway (variables.py
\* 35-66, modbus.py 98-131, 178-209)
\* ====================================================================

RECURSIVE Pow10(_)
Pow10(e) == IF e = 0 THEN 1 ELSE 10 * Pow10(e - 1)

Abs(n) == IF n < 0 THEN 0 - n ELSE n

IsDigit(c) == \E d \in 1 .. Len(Digits) : Digits[d] = c
DigitVal(c) == (CHOOSE d \in 1 .. Len(Digits) : Digits[d] = c) - 1

\* the decimal text of a natural number
RECURSIVE NatText(_)
NatText(n) ==
    IF n < 10 THEN <<Digits[n + 1]>>
    ELSE NatText(n \div 10) \o <<Digits[(n % 10) + 1]>>

\* the text of n written with exactly e digits
RECURSIVE PadText(_, _)
PadText(n, e) ==
    IF e = 0 THEN <<>>
    ELSE PadText(n \div 10, e - 1) \o <<Digits[(n % 10) + 1]>>

\* str(n) of an int
IntText(n) == IF n < 0 THEN <<"-">> \o NatText(0 - n) ELSE NatText(n)

\* repr of the float v / 10^e
FloatText(v, e) ==
    (IF v < 0 THEN <<"-">> ELSE <<>>)
        \o NatText(Abs(v) \div Pow10(e)) \o <<".">>
        \o PadText(Abs(v) % Pow10(e), e)

\* the value of a sequence of digits
RECURSIVE NatVal(_)
NatVal(ds) ==
    IF ds = <<>> THEN 0
    ELSE 10 * NatVal(SubSeq(ds, 1, Len(ds) - 1)) + DigitVal(ds[Len(ds)])

TrueTok == <<"t", "r", "u", "e">>
FalseTok == <<"f", "a", "l", "s", "e">>
NullTok == <<"n", "u", "l", "l">>
StrTok == <<"\"", "a", "b", "c", "\"">>

\* json.dumps of a Python value
json_dumpsMut(val) ==
    CASE val.kind = "bool"  -> IF val.v = 1 THEN <<"T", "r", "u", "e">>
                               ELSE <<"F", "a", "l", "s", "e">>
      [] val.kind = "int"   -> IntText(val.v)
      [] val.kind = "float" -> FloatText(val.v, val.e)
      [] val.kind = "none"  -> NullTok
      [] val.kind = "str"   -> StrTok
json_dumps(val) ==
    CASE val.kind = "bool"  -> IF val.v = 1 THEN TrueTok ELSE FalseTok
      [] val.kind = "int"   -> IntText(val.v)
      [] val.kind = "float" -> FloatText(val.v, val.e)
      [] val.kind = "none"  -> NullTok
      [] val.kind = "str"   -> StrTok

\* a decimal text split into sign, integer digits and fraction digits
ScanDecimal(bytes) ==
    LET neg  == Len(bytes) > 0 /\ bytes[1] = "-"
        body == IF neg THEN Tail(bytes) ELSE bytes
        dots == {k \in 1 .. Len(body) : body[k] = "."}
        dot  == IF dots = {} THEN Len(body) + 1
                ELSE CHOOSE k \in dots : \A j \in dots : k <= j
        ip   == SubSeq(body, 1, dot - 1)
        fp   == SubSeq(body, dot + 1, Len(body))
    IN  [neg |-> neg, hasDot |-> dots # {}, ip |-> ip, fp |-> fp,
         digits |-> /\ \A k \in 1 .. Len(ip) : IsDigit(ip[k])
                    /\ \A k \in 1 .. Len(fp) : IsDigit(fp[k])]

\* the shortest form of v / 10^e that keeps one fraction digit
RECURSIVE Shortest(_, _)
Shortest(v, e) ==
    IF e > 1 /\ v % 10 = 0 THEN Shortest(v \div 10, e - 1) ELSE PyFloat(v, e)

\* the number a scanned decimal text denotes: an int without a fraction
\* part, otherwise a float
DecimalValue(d) ==
    LET mag == NatVal(d.ip) * Pow10(Len(d.fp)) + NatVal(d.fp)
        sv  == IF d.neg THEN 0 - mag ELSE mag
    IN  IF d.hasDot THEN Shortest(sv, Len(d.fp)) ELSE PyInt(sv)

\* json.loads of what broker.get returned: None is a TypeError; JSON
\* literals, a quoted string, or a JSON number
\* -?(0|[1-9][0-9]*)(.[0-9]+)? ; anything else is a JSONDecodeError
json_loads(tok) ==
    IF ~tok.present THEN [err |-> "TypeError", val |-> PyNone]
    ELSE IF tok.bytes = TrueTok THEN [err |-> "none", val |-> PyBool(TRUE)]
    ELSE IF tok.bytes = FalseTok THEN [err |-> "none", val |-> PyBool(FALSE)]
    ELSE IF tok.bytes = NullTok THEN [err |-> "none", val |-> PyNone]
    ELSE IF tok.bytes = StrTok THEN [err |-> "none", val |-> PyStr]
    ELSE LET d == ScanDecimal(tok.bytes)
         IN  IF /\ d.digits
                /\ Len(d.ip) >= 1
                /\ (Len(d.ip) = 1 \/ d.ip[1] # "0")
                /\ (d.hasDot => Len(d.fp) >= 1)
             THEN [err |-> "none", val |-> DecimalValue(d)]
             ELSE [err |-> "JSONDecodeError", val |-> PyNone]

\* round(x) of the float v / 10^e: to the nearest int, ties to the even one
roundMut(v, e) ==
    LET q == v \div Pow10(e)
        r == v % Pow10(e)
    IN  IF 2 * r < Pow10(e) THEN q
        ELSE IF 2 * r > Pow10(e) THEN q
        ELSE IF q % 2 = 0 THEN q ELSE q + 1
round(v, e) ==
    LET q == v \div Pow10(e)
        r == v % Pow10(e)
    IN  IF 2 * r < Pow10(e) THEN q
        ELSE IF 2 * r > Pow10(e) THEN q + 1
        ELSE IF q % 2 = 0 THEN q ELSE q + 1

\* truth value of a Python value (the str of this model is not empty)
Truthy(val) ==
    CASE val.kind \in {"bool", "int", "float"} -> val.v # 0
      [] val.kind = "none" -> FALSE
      [] val.kind = "str"  -> TRUE

\* redis_encode, then the text the store keeps for what it returned: the
\* bytes themselves, or str() of the int
redis_encode(val) ==
    IF val.kind = "bool"
    THEN [err |-> "none", bytes |-> IF val.v = 1 THEN TrueTok ELSE FalseTok]
    ELSE IF ~Truthy(val) THEN [err |-> "none", bytes |-> IntText(0)]
    ELSE IF val.kind = "str" THEN [err |-> "ValueError", bytes |-> <<>>]
    ELSE [err |-> "none", bytes |-> IntText(round(val.v, val.e))]

\* redis_decode of what broker.get returned: the two literals, 0 for None
\* or empty bytes, otherwise round(float(val)); float() takes a sign and
\* digits with at least one digit around an optional point
redis_decode(tok) ==
    IF tok.present /\ tok.bytes = TrueTok
    THEN [err |-> "none", val |-> PyBool(TRUE)]
    ELSE IF tok.present /\ tok.bytes = FalseTok
    THEN [err |-> "none", val |-> PyBool(FALSE)]
    ELSE IF ~tok.present \/ tok.bytes = <<>>
    THEN [err |-> "none", val |-> PyInt(0)]
    ELSE LET d == ScanDecimal(tok.bytes)
             mag == NatVal(d.ip) * Pow10(Len(d.fp)) + NatVal(d.fp)
             sv  == IF d.neg THEN 0 - mag ELSE mag
         IN  IF d.digits /\ Len(d.ip) + Len(d.fp) >= 1
             THEN [err |-> "none", val |-> PyInt(round(sv, Len(d.fp)))]
             ELSE [err |-> "ValueError", val |-> PyNone]

\* the values a caller can write
Numerics ==
    {PyInt(n) : n \in (0 - MaxInt) .. MaxInt}
        \cup {PyFloat(k, 1) : k \in (0 - MaxTenths) .. MaxTenths}
PyValues == Numerics \cup {PyBool(TRUE), PyBool(FALSE), PyNone, PyStr}

IsNumeric(val) == val.kind \in {"int", "float"}

\* field.value = sArg: Field.value is a plain attribute
FieldSet ==
    /\ UNCHANGED fluidVars
    /\ sVal' = sArg
    /\ sErr' = "none"
    /\ sLast' = "set"
    /\ UNCHANGED <<sDomain, sArg, sTok, gVal>>
    /\ UNCHANGED <<kernelVars, plantVars, compVars>>

\* broker.set(field.name, field.toJSON())
SimPublish ==
    /\ UNCHANGED fluidVars
    /\ sTok' = Tok(json_dumps(sVal))
    /\ sErr' = "none"
    /\ sLast' = "publish"
    /\ UNCHANGED <<sDomain, sArg, sVal, gVal>>
    /\ UNCHANGED <<kernelVars, plantVars, compVars>>

\* field.fromJSON(broker.get(field.name))
SimRetrieve ==
    /\ UNCHANGED fluidVars
    /\ LET r == json_loads(sTok)
       IN  /\ sErr' = r.err
           /\ sVal' = IF r.err = "none" THEN r.val ELSE sVal
    /\ sLast' = "retrieve"
    /\ UNCHANGED <<sDomain, sArg, sTok, gVal>>
    /\ UNCHANGED <<kernelVars, plantVars, compVars>>

\* field.fromJSON(field.toJSON())
FieldReload ==
    /\ UNCHANGED fluidVars
    /\ LET r == json_loads(Tok(json_dumps(sVal)))
       IN  /\ sErr' = r.err
           /\ sVal' = IF r.err = "none" THEN r.val ELSE sVal
    /\ sLast' = "reload"
    /\ UNCHANGED <<sDomain, sArg, sTok, gVal>>
    /\ UNCHANGED <<kernelVars, plantVars, compVars>>

\* RedisDataBlock.setValues with the value sArg
GatewaySet ==
    /\ UNCHANGED fluidVars
    /\ LET w == redis_encode(sArg)
       IN  /\ sErr' = w.err
           /\ sTok' = IF w.err = "none" THEN Tok(w.bytes) ELSE sTok
    /\ sLast' = "gwset"
    /\ UNCHANGED <<sDomain, sArg, sVal, gVal>>
    /\ UNCHANGED <<kernelVars, plantVars, compVars>>

\* RedisDataBlock.getValues
GatewayGet ==
    /\ UNCHANGED fluidVars
    /\ LET r == redis_decode(sTok)
       IN  /\ sErr' = r.err
           /\ gVal' = IF r.err = "none" THEN r.val ELSE gVal
    /\ sLast' = "gwget"
    /\ UNCHANGED <<sDomain, sArg, sVal, sTok>>
    /\ UNCHANGED <<kernelVars, plantVars, compVars>>

\* a Digital field configured with a boolean, an Analog field with a number
InitScalar ==
    /\ PlantIdle
    /\ KernelIdle
    /\ CompIdle
    /\ FluidIdle
    /\ sDomain \in {"Digital", "Analog"}
    /\ sArg \in PyValues
    /\ sVal \in IF sDomain = "Digital"
                THEN {PyBool(FALSE), PyBool(TRUE)}
                ELSE {PyInt(0), PyFloat(0, 1)}
    /\ sTok = NoTok
    /\ gVal = PyNone
    /\ sErr = "none"
    /\ sLast = "none"

NextScalar ==
    \/ FieldSet
    \/ SimPublish
    \/ SimRetrieve
    \/ FieldReload
    \/ GatewaySet
    \/ GatewayGet

SpecScalar == InitScalar /\ [][NextScalar]_vars

\* ---------------------------------------------------------------- C16
\* C16: in every reachable state a Digital field holds a boolean and an
\* Analog field holds a number, whatever was written to it directly or
\* deserialized into it from the store.
C16_ValueMatchesDomain ==
    /\ sDomain = "Digital" => sVal.kind = "bool"
    /\ sDomain = "Analog" => IsNumeric(sVal)

\* ---------------------------------------------------------------- C17
\* C17: on a Digital field and for both booleans b: after setting b the
\* field holds b; deserializing the field's own serialization of b leaves
\* b and raises nothing; the token the simulator publishes for b is decoded
\* by the gateway to b; the token the gateway stores for b is deserialized
\* by the simulator to b.
C17_DigitalRoundTrip ==
    [][(sDomain = "Digital" /\ sArg.kind = "bool") =>
          /\ sLast' = "set" => sVal' = sArg
          /\ (sLast' = "reload" /\ sVal.kind = "bool") =>
                sErr' = "none" /\ sVal' = sVal
          /\ (sLast' = "publish" /\ sVal'.kind = "bool") =>
                redis_decode(sTok') = [err |-> "none", val |-> sVal']
          /\ sLast' = "gwset" =>
                /\ sErr' = "none"
                /\ json_loads(sTok') = [err |-> "none", val |-> sArg]]_vars
C17_Witness ==
    /\ sDomain = "Digital" /\ sArg = PyBool(TRUE)
    /\ sLast = "gwget" /\ gVal = PyBool(TRUE)
    /\ sVal = PyBool(TRUE) /\ sTok = Tok(TrueTok)

\* ---------------------------------------------------------------- C18
\* C18: for every number v, what the gateway decodes from the token it
\* stored for v, and from the token the simulator published for v, is an
\* int within 0.5 of v; encoding and decoding that int again gives the
\* same int.
C18_Within(n, val) ==
    2 * Abs(n * Pow10(val.e) - val.v) <= Pow10(val.e)
C18_RoundedOnce(tok, val) ==
    LET d == redis_decode(tok)
    IN  /\ d.err = "none"
        /\ d.val.kind = "int"
        /\ C18_Within(d.val.v, val)
        /\ redis_encode(d.val).err = "none"
        /\ redis_decode(Tok(redis_encode(d.val).bytes)) = d
C18_NumericRoundTrip ==
    /\ (sLast = "gwset" /\ IsNumeric(sArg)) =>
            sErr = "none" /\ C18_RoundedOnce(sTok, sArg)
    /\ (sLast = "publish" /\ IsNumeric(sVal)) => C18_RoundedOnce(sTok, sVal)
C18_Witness ==
    /\ sArg = PyFloat(37, 1)
    /\ sVal = PyFloat(37, 1)
    /\ sLast = "gwget"
    /\ sTok = Tok(<<"3", ".", "7">>)
    /\ gVal = PyInt(4)

\* ====================================================================
\* The composition of a fluid field (variables.py 97-171)
\* ====================================================================

FluidKeys == {"AIR", "H2", "N2"}
Quantities == (0 - MaxQty) .. MaxQty
FluidMaps == UNION {[S -> Quantities] : S \in SUBSET FluidKeys}

\* sum(fluid_dict.values())
RECURSIVE SumOver(_, _)
SumOver(m, S) ==
    IF S = {} THEN 0
    ELSE LET k == CHOOSE x \in S : TRUE
         IN  m[k] + SumOver(m, S \ {k})
Total(m) == SumOver(m, DOMAIN m)

\* FluidField._normalize
_normalize(m) ==
    IF Total(m) > 0
    THEN [k \in {x \in DOMAIN m : m[x] # 0} |-> Frac(m[k], Total(m))]
    ELSE [k \in {} |-> Frac(0, 1)]

\* `self._normalize(fluid_dict) if fluid_dict else None`: None and the
\* empty dict are both false
StoreFluid(arg) ==
    IF arg.given /\ DOMAIN arg.m # {} THEN Dict(_normalize(arg.m)) ELSE NoDict

\* FluidField(name) or FluidField(name, fluid_dict=flArg)
FluidConstruct(arg) ==
    /\ UNCHANGED <<kernelVars, plantVars, compVars, scalVars>>
    /\ flPc = "new"
    /\ arg \in {NoDict, flArg}
    /\ flPc' = "live"
    /\ flIn' = arg
    /\ flDict' = StoreFluid(arg)
    /\ flErr' = "none"
    /\ flLast' = "construct"
    /\ UNCHANGED <<flArg, flQty>>

\* field.fluidDict = arg
FluidAssign(arg) ==
    /\ UNCHANGED <<kernelVars, plantVars, compVars, scalVars>>
    /\ flPc = "live"
    /\ arg \in {NoDict, flArg}
    /\ flIn' = arg
    /\ flDict' = StoreFluid(arg)
    /\ flErr' = "none"
    /\ flLast' = "assign"
    /\ UNCHANGED <<flPc, flArg, flQty>>

\* field.fluidQuantity(key): self._fluidDict.get(key, 0.0)
FluidQuantity(key) ==
    /\ flPc = "live"
    /\ IF ~flDict.given
       THEN flErr' = "AttributeError" /\ UNCHANGED flQty
       ELSE /\ flErr' = "none"
            /\ flQty' = IF key \in DOMAIN flDict.m THEN flDict.m[key]
                        ELSE Frac(0, 1)
    /\ flLast' = "quantity"
    /\ UNCHANGED <<flPc, flArg, flIn, flDict>>
    /\ UNCHANGED <<kernelVars, plantVars, compVars, scalVars>>

FluidArgs == {NoDict} \cup {Dict(m) : m \in FluidMaps}

InitFluid ==
    /\ PlantIdle
    /\ KernelIdle
    /\ CompIdle
    /\ ScalIdle
    /\ flPc = "new"
    /\ flArg \in FluidArgs
    /\ flIn = NoDict
    /\ flDict = NoDict
    /\ flQty = Frac(0, 1)
    /\ flErr = "none"
    /\ flLast = "none"

\* the field is built with the default or with flArg; later assignments
\* give flArg or None
NextFluid ==
    \/ \E arg \in FluidArgs : FluidConstruct(arg)
    \/ \E arg \in FluidArgs : FluidAssign(arg)
    \/ \E key \in FluidKeys : FluidQuantity(key)

SpecFluid == InitFluid /\ [][NextFluid]_vars

\* ---------------------------------------------------------------- C19
\* C19: after construction with, or assignment of, an input map: no error
\* is raised; if the map's total is above 0 the stored composition has
\* exactly the map's non-zero keys, each holding value/total; otherwise,
\* the all-zero and the empty map included, the stored composition is the
\* empty map.
C19_Normalized ==
    (flPc = "live" /\ flIn.given) =>
        /\ flLast \in {"construct", "assign"} => flErr = "none"
        /\ flDict.given
        /\ IF Total(flIn.m) > 0
           THEN /\ DOMAIN flDict.m = {k \in DOMAIN flIn.m : flIn.m[k] # 0}
                /\ \A k \in DOMAIN flDict.m :
                      flDict.m[k] = Frac(flIn.m[k], Total(flIn.m))
           ELSE DOMAIN flDict.m = {}

\* ---------------------------------------------------------------- C20
\* C20: whenever the stored composition is not empty, whatever map was
\* given (negative quantities included), every stored fraction is above 0
\* and the fractions sum to 1.
C20_FractionsPositive ==
    (flPc = "live" /\ flDict.given /\ DOMAIN flDict.m # {}) =>
        /\ \A k \in DOMAIN flDict.m :
              flDict.m[k].den > 0 /\ flDict.m[k].num > 0
        /\ \A k \in DOMAIN flDict.m :
              SumOver([j \in DOMAIN flDict.m |-> flDict.m[j].num],
                      DOMAIN flDict.m) = flDict.m[k].den

\* ------------------------------------------------- component framework
\* the events of process p that the scheduler still holds
Pending(p) == {i \in 1 .. Len(queue) : queue[i].proc = p}

\* C24: a component with update period p runs its update step exactly once
\* at each of the ticks 0, p, 2p, ... and at no other tick, and while the
\* scheduler runs its process stays alive: it holds control or has exactly
\* one pending event
C24_OncePerPeriod ==
    /\ [][(running = "X" /\ running' = "none")
            => /\ now % period["X"] = 0
               /\ lastW.tick = IF now = 0 THEN -1 ELSE now - period["X"]]_vars
    /\ [][(running = "Y" /\ running' = "none")
            => /\ now % period["Y"] = 0
               /\ yReadTick = IF now = 0 THEN -1 ELSE now - period["Y"]]_vars
    /\ [][now' > now
            => /\ lastW.tick = period["X"] * (now \div period["X"])
               /\ yReadTick = period["Y"] * (now \div period["Y"])]_vars
    /\ [](phase = "running"
            => \A c \in Components :
                  Cardinality(Pending(c)) = IF running = c THEN 0 ELSE 1)

\* a component of period 2 has run at tick 2 and the one of period 1 at
\* ticks 2 and 3
C24_Witness ==
    /\ period["X"] = DefaultUpdateTick + 1
    /\ period["Y"] = DefaultUpdateTick
    /\ lastW.tick = 2
    /\ yReadTick = 3

\* a component's update step: it held control and yields
ComponentStep == running \in Components /\ running' = "none"

InitMonitor ==
    /\ CompIdle
    /\ ScalIdle
    /\ FluidIdle
    /\ cfgHide \in {h \in [FieldIds -> HideFlags] :
                       \A i \in FieldIds \ {FieldF, FieldG} : h[i] = "absent"}
    /\ mLog = <<>>
    /\ BootIdle
    /\ WireIdle
    /\ ConfIdle
    /\ HydroIdle
    /\ FilterIdle
    /\ cfgIo = [i \in FieldIds |->
                   IF i = FieldF THEN ANALOG_OUTPUT ELSE ANALOG_INPUT]
    /\ cfgDisc = NoDisc
    /\ verbose = TRUE
    /\ phase = "boot"
    /\ err = "none"
    /\ value = [i \in FieldIds |-> 0]
    /\ dValue = "absent"
    /\ dObserver = "none"
    /\ store = [i \in FieldIds |-> NoKey]
    /\ queue = <<>>
    /\ now = 0
    /\ running = "none"
    /\ pcO = "start"
    /\ registered = <<>>
    /\ period = [c \in Components |-> 0]
    /\ tickLog = <<>>
    /\ lastW = [tick |-> -1, val |-> 0]
    /\ yReadTick = -1
    /\ lastPull = -1
    /\ extOps = 0

SpecMonitor == InitMonitor /\ [][Next]_vars

\* the pending events of the processes other than the monitor: the queue
\* of the same engine built with verbose=False
Strip(q) == SelectSeq(q, LAMBDA e : e.proc # "M")

MonitorRuns == running = "M" /\ running' = "none"

\* C29: a monitor cycle logs exactly the fields that are not hidden and
\* changes no field value and no store key; the engine with the monitor has
\* the field and store history of the engine without it: the monitor leaves
\* the other processes' pending events alone, and every other process is
\* resumed and rescheduled as it is on the queue without the monitor's
\* events.
C29_MonitorReadOnly ==
    /\ [][MonitorRuns
            => /\ \A i \in FieldIds :
                     (\E k \in 1 .. Len(mLog') : mLog'[k] = i)
                        <=> cfgHide[i] # "hidden"
               /\ value' = value /\ dValue' = dValue /\ store' = store
               /\ phase' = phase /\ err' = err
               /\ Strip(queue') = Strip(queue)]_vars
    /\ [][(running = "none" /\ running' \notin {"none", "M"})
            => /\ Head(Strip(queue)).proc = running'
               /\ Strip(queue') = Tail(Strip(queue))]_vars
    /\ [][(running = "none" /\ running' = "M")
            => Strip(queue') = Strip(queue)]_vars
    /\ [][(running \notin {"none", "M"} /\ running' = "none"
             /\ phase' = "running")
            => Strip(queue')
                 = Timeout(Strip(queue), now, PeriodOf(running), running)]_vars

\* the monitor has logged the shown field G and not the hidden field F,
\* after the writer changed F and a push wrote a store key
C29_Witness ==
    /\ phase = "running" /\ now >= 1
    /\ cfgHide[FieldF] = "hidden" /\ cfgHide[FieldG] = "shown"
    /\ mLog = SelectSeq(FieldSeq, LAMBDA i : i # FieldF)
    /\ tickLog # <<>> /\ tickLog[Len(tickLog)] = "M"
    /\ lastW.tick >= 0 /\ IsOutputField(FieldF) /\ store[FieldF] # ToJSON(0)

\* ------------------------------------------------------- pre-seeded store
\* a store client may have written the key of field F before the engine
\* is constructed
SeedTokens == {NoKey, ToJSON(1)}

\* Process(config_file, verbose=True) over a store that may hold a value
\* for the key of F; F is the only field that may be an Input field
InitSeeded ==
    /\ CompIdle
    /\ ScalIdle
    /\ FluidIdle
    /\ MonIdle
    /\ WireIdle
    /\ ConfIdle
    /\ HydroIdle
    /\ FilterIdle
    /\ seed \in {[i \in FieldIds |-> IF i = FieldF THEN t ELSE NoKey] :
                    t \in SeedTokens}
    /\ store = seed
    /\ cfgIo \in {[i \in FieldIds |-> IF i = FieldF THEN d ELSE ANALOG_OUTPUT] :
                     d \in {ANALOG_INPUT, ANALOG_OUTPUT}}
    /\ cfgDisc = NoDisc
    /\ verbose = TRUE
    /\ phase = "boot"
    /\ err = "none"
    /\ value = [i \in FieldIds |-> 0]
    /\ dValue = "absent"
    /\ dObserver = "none"
    /\ queue = <<>>
    /\ now = 0
    /\ running = "none"
    /\ pcO = "start"
    /\ registered = <<>>
    /\ period = [c \in Components |-> 0]
    /\ tickLog = <<>>
    /\ lastW = [tick |-> -1, val |-> 0]
    /\ yReadTick = -1
    /\ lastPull = -1
    /\ extOps = 0

SpecSeeded == InitSeeded /\ [][Next]_vars

\* the pull of this tick is done and no component has written F since
FreshPull == phase = "running" /\ lastPull = now /\ lastW.tick < now

\* C23 as stated: if the store holds the token of 1 for the key of the
\* single Input field F before the engine starts, then after startup and
\* the pull of a tick the value of F is 1, and a component step that reads
\* F in the tick of that pull observes 1.
C23_SeedReadBack ==
    /\ []((FreshPull /\ IsInputField(FieldF) /\ seed[FieldF] = ToJSON(1)
             /\ extOps = 0)
            => value[FieldF] = 1)
    /\ [][(ReaderRuns /\ FreshPull /\ IsInputField(FieldF)
             /\ seed[FieldF] = ToJSON(1) /\ extOps = 0)
            => value'[FieldG] = 1]_vars

\* C23 amended: startup overwrites every key, the seeded one too, with the
\* initial value of its field; after startup and the pull of a tick, while
\* no other client has written the key, the value of the Input field F is
\* its initial value 0 whatever was seeded, and a component step that reads
\* F in the tick of that pull, before a component writes F, observes it.
C23_SnapshotReadBack ==
    /\ [][(phase = "boot" /\ phase' = "wiring")
            => \A i \in FieldIds : store'[i] = Digits[value[i] + 1]]_vars
    /\ []((FreshPull /\ IsInputField(FieldF) /\ extOps = 0)
            => value[FieldF] = 0)
    /\ [][(ReaderRuns /\ FreshPull /\ IsInputField(FieldF) /\ extOps = 0)
            => value'[FieldG] = 0]_vars

\* over a store seeded with 1 for the Input field F, the reader has run
\* after the pull of tick 1 and before the writer, and has read 0
C23_Witness ==
    /\ phase = "running" /\ IsInputField(FieldF) /\ seed[FieldF] = ToJSON(1)
    /\ extOps = 0 /\ now = 1 /\ lastPull = 1 /\ yReadTick = 1
    /\ lastW.tick = 0 /\ value[FieldG] = 0

\* ----------------------------------------------------- component wiring
\* what a caller can pass as a dependency: an instance of the expected
\* wrapper class of objects.py holding Fields ("wrapper"), an instance of
\* that class holding something without a value attribute ("hollow": the
\* wrapper classes store their arguments unchecked), a Field passed in place
\* of its wrapper ("field"), any other object ("foreign")
DepKinds == {"wrapper", "hollow", "field", "foreign"}

\* number of dependencies each constructor takes after env
Arity(c) ==
    CASE c = "LevelRegulation" -> 5
      [] c = "HydraulicCentral" -> 2
      [] c = "Cooling" -> 10
      [] c = "Turbine" -> 7

\* positions of the dependencies the update step of c reads.  Cooling
\* never reads syncCoupler, RGUExcitation, waterLevelAndFlow and SEPAM.
Used(c) ==
    IF c = "Cooling" THEN {1, 2, 3, 4, 5, 7} ELSE 1 .. Arity(c)

\* the isinstance checks of a constructor: position of the first dependency
\* that is not an instance of the expected class, 0 if there is none
FirstRejected(args) ==
    LET bad == {i \in 1 .. Len(args) : args[i] \in {"field", "foreign"}}
    IN  IF bad = {} THEN 0 ELSE CHOOSE i \in bad : \A j \in bad : i <= j

\* what the constructor raises: ValueError(obj); LevelRegulation raises
\* ValueError(obj.name), which is an AttributeError for an object without
\* a name
Validate(c, args) ==
    LET r == FirstRejected(args)
    IN  IF r = 0 THEN "built"
        ELSE IF c = "LevelRegulation" /\ args[r] = "foreign"
             THEN "AttributeError"
             ELSE "ValueError"

\* positions whose attribute the constructor left unset or holding a
\* hollow wrapper.  Turbine assigns its attributes after all checks, the
\* others assign each one after its check.
Unusable(c, args) ==
    LET r == FirstRejected(args)
    IN  {i \in 1 .. Len(args) :
            \/ args[i] = "hollow"
            \/ r # 0 /\ (c = "Turbine" \/ i >= r)}

\* the argument lists with at most one dependency that is not a wrapper of
\* Fields
ArgLists(c) ==
    {[i \in 1 .. Arity(c) |-> "wrapper"]} \cup
    {[i \in 1 .. Arity(c) |-> IF i = pos THEN k ELSE "wrapper"] :
        pos \in 1 .. Arity(c), k \in DepKinds}

InitWiring ==
    /\ KernelIdle
    /\ CompIdle
    /\ ScalIdle
    /\ FluidIdle
    /\ MonIdle
    /\ BootIdle
    /\ ConfIdle
    /\ HydroIdle
    /\ FilterIdle
    /\ \E d \in WComponents :
          \E a \in ArgLists(d) :
             wArgs = [c \in WComponents |->
                         IF c = d THEN a ELSE [i \in 1 .. Arity(c) |-> "wrapper"]]
    /\ wGuarded \in BOOLEAN
    /\ wBuilt = [c \in WComponents |-> "no"]
    /\ wQueue = <<>>
    /\ wNow = 0
    /\ wPhase = "wiring"
    /\ wRan = {}

\* the frame of the wiring actions
WiringFrame ==
    UNCHANGED <<kernelVars, compVars, scalVars, fluidVars, monVars, bootVars,
                confVars, hydroVars, filtVars, wArgs, wGuarded>>

\* X(env, deps...): Component.__init__ registers the process, then the
\* subclass checks its dependencies.  An exception ends the script unless
\* the caller catches it.
ConstructComponent(c) ==
    /\ WiringFrame
    /\ wPhase = "wiring"
    /\ wBuilt[c] = "no"
    /\ \A k \in 1 .. Len(WireOrder) :
          WireOrder[k] = c => \A j \in 1 .. (k - 1) : wBuilt[WireOrder[j]] # "no"
    /\ wQueue' = RegisterProcess(wQueue, c)
    /\ wBuilt' = [wBuilt EXCEPT ![c] = Validate(c, wArgs[c])]
    /\ wPhase' = IF Validate(c, wArgs[c]) = "built" \/ wGuarded
                 THEN "wiring" ELSE "aborted"
    /\ UNCHANGED <<wNow, wRan>>

\* world.run(), after the last constructor
WiringRun ==
    /\ WiringFrame
    /\ wPhase = "wiring"
    /\ \A c \in WComponents : wBuilt[c] # "no"
    /\ wPhase' = "running"
    /\ UNCHANGED <<wBuilt, wQueue, wNow, wRan>>

\* the scheduler resumes the next component process: its update step
\* starts, and raises AttributeError at the first dependency it cannot
\* use; otherwise the process yields env.timeout(UPDATE_TICK)
WiringStep ==
    /\ WiringFrame
    /\ wPhase = "running"
    /\ wQueue # <<>>
    /\ Head(wQueue).time <= MaxWireTick
    /\ LET ev == Head(wQueue)
           c == ev.proc
       IN  /\ wNow' = ev.time
           /\ wRan' = wRan \cup {c}
           /\ IF Unusable(c, wArgs[c]) \cap Used(c) # {}
              THEN /\ wPhase' = "crashed"
                   /\ wQueue' = Tail(wQueue)
              ELSE /\ wPhase' = "running"
                   /\ wQueue' = Timeout(Tail(wQueue), ev.time,
                                        DefaultUpdateTick, c)
    /\ UNCHANGED wBuilt

NextWiring ==
    \/ \E c \in WComponents : ConstructComponent(c)
    \/ WiringRun
    \/ WiringStep

SpecWiring == InitWiring /\ [][NextWiring]_vars

\* C21: constructing a component with a dependency that is not of the
\* expected variant, a wrapper whose members are not Fields included, raises
\* an error in the constructor (so before the first tick)
C21_FailFast ==
    \A c \in WComponents :
       (wBuilt[c] # "no" /\ \E i \in 1 .. Arity(c) : wArgs[c][i] # "wrapper")
          => wBuilt[c] \in {"ValueError", "AttributeError"}

\* C30: if a component's constructor raised, no process of that component
\* is registered with the scheduler and a later run never starts an update
\* step of it
C30_RejectedNotRegistered ==
    \A c \in WComponents :
       wBuilt[c] \in {"ValueError", "AttributeError"}
          => /\ \A k \in 1 .. Len(wQueue) : wQueue[k].proc # c
             /\ c \notin wRan

\* --------------------------------------------------- composite records
\* val["compositeType"]: a class of variables.py, or a name it lacks
CompositeTypes == {"BreakerStateField", "DisconnectorStateField",
                   "FieldCollection", "FluidField", "Field", "Unknown"}

\* val["value"] of a record: a string, given by its parts between dots, or
\* the number 5 (isStr = FALSE)
ValueParts == {<<"Open">>, <<"A", "B", "C">>, <<"Nope", "X">>,
               <<"BreakerStateType", "NOPE">>, <<"BreakerStateType", "OPEN">>,
               <<"DisconnectorStateType", "OPEN">>, <<"json", "dumps">>}

\* attributes of the module variables that have attributes of their own
ModuleAttrs == {"BreakerStateType", "DisconnectorStateType", "json"}
AttrsOf(obj) ==
    CASE obj = "BreakerStateType" -> {"CLOSED", "OPEN", "TRANSITION", "BROKEN"}
      [] obj = "DisconnectorStateType" -> {"OPEN", "CLOSED", "BROKEN"}
      [] obj = "json" -> {"dumps", "loads"}

\* obj, attr = value.split("."); getattr(getattr(variables, obj), attr)
Resolve(rec) ==
    IF ~rec.isStr THEN [err |-> "none", kind |-> "number"]
    ELSE IF Len(rec.value) # 2 THEN [err |-> "ValueError", kind |-> "none"]
    ELSE IF rec.value[1] \notin ModuleAttrs
              \/ rec.value[2] \notin AttrsOf(rec.value[1])
         THEN [err |-> "AttributeError", kind |-> "none"]
         ELSE [err |-> "none", kind |-> rec.value[1]]

\* a string that names an existing member of one of the two enumerations
IsEnumMember(rec) ==
    /\ rec.isStr
    /\ Resolve(rec).kind \in {"BreakerStateType", "DisconnectorStateType"}

\* var_type(key, io_type, value, hide): BreakerStateField and
\* FieldCollection take fewer positional arguments; DisconnectorStateField
\* checks the type of value and then fails in its own __setattr__; Field
\* and FluidField take any value
ConstructRecord(type, kind) ==
    CASE type \in {"BreakerStateField", "FieldCollection"} -> "TypeError"
      [] type = "DisconnectorStateField" ->
            IF kind = "DisconnectorStateType" THEN "AttributeError"
            ELSE "TypeError"
      [] OTHER -> "none"

\* json.dumps(value) of the startup push
Serializable(kind) == kind = "number"

InitConfig ==
    /\ KernelIdle
    /\ CompIdle
    /\ ScalIdle
    /\ FluidIdle
    /\ MonIdle
    /\ BootIdle
    /\ WireIdle
    /\ HydroIdle
    /\ FilterIdle
    /\ rCfg \in [type : CompositeTypes, value : ValueParts, isStr : BOOLEAN,
                 member : {"declared", "undeclared"}, last : BOOLEAN]
    /\ rPhase = "boot"
    /\ rErr = "none"
    /\ rPublished = {}

\* Process.__init__ on a configuration that declares the plain Output
\* field A and the composite record C (after A if rCfg.last): the loop of
\* _init_all_fields, the forced push, then the scheduler is created.  The
\* member reference of the record is never read.
InitAllFieldsRecord ==
    /\ UNCHANGED <<kernelVars, compVars, scalVars, fluidVars, monVars,
                   bootVars, wireVars, hydroVars, filtVars, rCfg>>
    /\ rPhase = "boot"
    /\ LET val == Resolve(rCfg)
           made == ConstructRecord(rCfg.type, val.kind)
           e == IF rCfg.type = "Unknown" THEN "AttributeError"
                ELSE IF val.err # "none" THEN val.err
                ELSE IF made # "none" THEN made
                ELSE IF ~Serializable(val.kind) THEN "TypeError"
                ELSE "none"
           built == rCfg.type # "Unknown" /\ val.err = "none" /\ made = "none"
       IN  /\ rErr' = e
           /\ rPhase' = IF e = "none" THEN "started" ELSE "failed"
           /\ rPublished' = IF ~built THEN {}
                            ELSE IF Serializable(val.kind) THEN {"A", "C"}
                            ELSE IF rCfg.last THEN {"A"} ELSE {}

SpecConfig == InitConfig /\ [][InitAllFieldsRecord]_vars

\* C22: a configuration whose composite record names an undeclared member
\* field, or gives as enum value a string that is not an existing
\* Enum.Member path, fails at startup before any field is published and
\* before the scheduler starts
C22_BadRecordFailsFirst ==
    (/\ rPhase \notin {"idle", "boot"}
     /\ rCfg.member = "undeclared" \/ (rCfg.isStr /\ ~IsEnumMember(rCfg)))
       => (rPhase = "failed" /\ rPublished = {})

\* ------------------------------------------------------------ hydro plant
\* the fields of the plant the four components exchange values through
\* (the HYDRO_ prefix of the names is left out)
HFields == {"CMDO_VA_TETE", "CMDC_VA_TETE", "ZSO_VA_TETE", "ZSC_VA_TETE",
            "CMDO_VA_PIED", "CMDC_VA_PIED", "ZSO_VA_PIED", "ZSC_VA_PIED",
            "ZT_VA_RGN", "FT_VA_TETE", "ST_TURB",
            "FQT_ALTERN", "VSP_ALTERN", "VT_ALTERN", "AUTORIZ_CPL",
            "JT_ALTERN", "COURANT1", "COURANT2", "COURANT3", "FREQ",
            "TT_EAU", "TT_ECHAUFF",
            "CMD_PO_HUILE", "RM_PO_HUILE", "TT_HUILE"}

\* the fields that hold a bool
DigitalFields == {"CMDO_VA_TETE", "CMDC_VA_TETE", "ZSO_VA_TETE",
                  "ZSC_VA_TETE", "CMDO_VA_PIED", "CMDC_VA_PIED",
                  "ZSO_VA_PIED", "ZSC_VA_PIED", "AUTORIZ_CPL",
                  "CMD_PO_HUILE", "RM_PO_HUILE"}

\* fields one component writes and another reads
CycleFields == {"ZSC_VA_TETE", "ZSC_VA_PIED", "FT_VA_TETE", "ST_TURB"}

\* RGN valve setpoints of the configuration
RgnValues == {0, 2, 4}

ZT_VA_RGN_MIN_WORKING == 2
FACTOR_FT_VA_TETE_ST_TURB == 300
ST_TURB_MAX == 1500
ST_TURB_MIN == 0
FACTOR_ST_TURB_FQT_ALTERN == 30
COUPLAGE_MIN == 49
COUPLAGE_MAX == 51
MIN_OIL_TEMPERATURE == 20
MAX_OIL_TEMPERATURE == 70
\* ZT_VA_TETE_openingTime / FACTOR: updates from closed to fully open; the
\* valve positions are counted in steps of ZT_VA_TETE_MAX / ValveSteps
ValveSteps == 6

\* LevelRegulation._updateWaterLevelAndFlow: the head flow is gated by both
\* closed switches and the RGN position; the level it writes is clamped to
\* MIN_WATER_LEVEL or more, so has_water holds.  Flows are counted in
\* tenths: HEAD_VALVE_FLOW_FACTOR (0.5) * position is 5 tenths per unit.
_updateWaterLevelAndFlow(v) ==
    [v EXCEPT !["FT_VA_TETE"] =
        IF /\ ~v["ZSC_VA_TETE"]
           /\ ~v["ZSC_VA_PIED"]
           /\ v["ZT_VA_RGN"] >= ZT_VA_RGN_MIN_WORKING
        THEN 5 * v["ZT_VA_RGN"]
        ELSE 0]

\* the position a valve moves to under its open and close commands
ValveMoveMut(pos, cmdo, cmdc) ==
    IF cmdc THEN (IF pos - 1 < 0 THEN 0 ELSE pos - 1)
    ELSE IF cmdo THEN (IF pos + 1 > ValveSteps THEN ValveSteps ELSE pos + 1)
    ELSE pos
ValveMove(pos, cmdo, cmdc) ==
    IF cmdo THEN (IF pos + 1 > ValveSteps THEN ValveSteps ELSE pos + 1)
    ELSE IF cmdc THEN (IF pos - 1 < 0 THEN 0 ELSE pos - 1)
    ELSE pos

\* Turbine._updateHeadValve and _updateFootValve: the limit switches of
\* the position the valve has moved to
_updateHeadValveMut(v, pos) ==
    [v EXCEPT !["ZSO_VA_TETE"] = pos.head >= ValveSteps - 1,
              !["ZSC_VA_TETE"] = pos.head <= 0]
_updateHeadValve(v, pos) ==
    [v EXCEPT !["ZSO_VA_TETE"] = pos.head >= ValveSteps,
              !["ZSC_VA_TETE"] = pos.head <= 0]
_updateFootValve(v, pos) ==
    [v EXCEPT !["ZSO_VA_PIED"] = pos.foot >= ValveSteps,
              !["ZSC_VA_PIED"] = pos.foot <= 0]

\* FACTOR_FT_VA_TETE_ST_TURB * HYDRO_FT_VA_TETE, the flow being in tenths
FlowSpeed(v) == (FACTOR_FT_VA_TETE_ST_TURB * v["FT_VA_TETE"]) \div 10

\* Turbine._updateRGNValve: the speed is capped only while the coupling is
\* authorized
_updateRGNValve(v) ==
    [v EXCEPT !["ST_TURB"] =
        IF v["ZT_VA_RGN"] > ZT_VA_RGN_MIN_WORKING
        THEN IF FlowSpeed(v) <= ST_TURB_MAX \/ ~v["AUTORIZ_CPL"]
             THEN FlowSpeed(v)
             ELSE ST_TURB_MAX
        ELSE ST_TURB_MIN]

\* Turbine._updateRGUExcitation: the speeds are multiples of 30, so the
\* frequency is a whole number of Hz
_updateRGUExcitation(v) ==
    [v EXCEPT !["FQT_ALTERN"] = v["ST_TURB"] \div FACTOR_ST_TURB_FQT_ALTERN,
              !["VT_ALTERN"] = v["VSP_ALTERN"]]

\* Turbine._updateSyncCoupler
_updateSyncCouplerMut(v) ==
    [v EXCEPT !["AUTORIZ_CPL"] = /\ COUPLAGE_MIN <= v["FQT_ALTERN"]
                                /\ v["FQT_ALTERN"] <= COUPLAGE_MAX]
_updateSyncCoupler(v) ==
    [v EXCEPT !["AUTORIZ_CPL"] = /\ COUPLAGE_MIN < v["FQT_ALTERN"]
                                /\ v["FQT_ALTERN"] < COUPLAGE_MAX]

\* Turbine._updateSEPAM: the power is RENDEMENT_ELEC * pMeca / 1e3 with
\* pMeca = 1000 * 9.81 * 15 * 0.9 * flow, here in units of 0.01125697 kW
\* (1000 per tenth of flow); the current is the power times a positive
\* constant, here in the units that make the constant 1
_updateSEPAM(v) ==
    LET jt == IF v["AUTORIZ_CPL"] THEN 1000 * v["FT_VA_TETE"] ELSE 0
        courant == IF v["VSP_ALTERN"] # 0 THEN jt ELSE 0
    IN  [v EXCEPT !["JT_ALTERN"] = jt,
                  !["COURANT1"] = courant,
                  !["COURANT2"] = courant,
                  !["COURANT3"] = courant,
                  !["FREQ"] = v["FQT_ALTERN"]]

\* Cooling._updateWaterTemperature with the water pump stopped (factor 0)
_updateWaterTemperature(v) == [v EXCEPT !["TT_EAU"] = v["TT_ECHAUFF"]]

\* Cooling._updateWarmingTemperature: TT_EAU + ST_TURB * 0.01
_updateWarmingTemperature(v) ==
    [v EXCEPT !["TT_ECHAUFF"] = v["TT_EAU"] + v["ST_TURB"] \div 100]

\* HydraulicCentral._update_oil_temperature
_update_oil_temperatureMut(v) ==
    LET t == IF v["RM_PO_HUILE"] THEN v["TT_HUILE"] + 1 ELSE v["TT_HUILE"] - 1
    IN  [v EXCEPT !["TT_HUILE"] =
            IF t > MAX_OIL_TEMPERATURE THEN MAX_OIL_TEMPERATURE ELSE t]
_update_oil_temperature(v) ==
    LET t == IF v["RM_PO_HUILE"] THEN v["TT_HUILE"] + 1 ELSE v["TT_HUILE"] - 1
    IN  [v EXCEPT !["TT_HUILE"] =
            IF t > MAX_OIL_TEMPERATURE THEN MAX_OIL_TEMPERATURE
            ELSE IF t < MIN_OIL_TEMPERATURE THEN MIN_OIL_TEMPERATURE
            ELSE t]

\* HydraulicCentral._update_oil_pump
_update_oil_pumpMut(v) == [v EXCEPT !["RM_PO_HUILE"] = v["RM_PO_HUILE"]]
_update_oil_pump(v) == [v EXCEPT !["RM_PO_HUILE"] = v["CMD_PO_HUILE"]]

\* number of update methods in the process loop of each component, with the
\* methods that touch none of HFields counted: LevelRegulation 2 (the second
\* is _updateOpened), HydraulicCentral 2, Cooling 2 (after the pump and
\* flow updates, which are folded into the first), Turbine 6
Methods(c) == IF c = "Turbine" THEN 6 ELSE 2

\* the field values after update method k of component c
Update(c, k, v, pos) ==
    CASE c = "LevelRegulation" /\ k = 1 -> _updateWaterLevelAndFlow(v)
      [] c = "HydraulicCentral" /\ k = 1 -> _update_oil_temperature(v)
      [] c = "HydraulicCentral" /\ k = 2 -> _update_oil_pump(v)
      [] c = "Cooling" /\ k = 1 -> _updateWaterTemperature(v)
      [] c = "Cooling" /\ k = 2 -> _updateWarmingTemperature(v)
      [] c = "Turbine" /\ k = 1 -> _updateHeadValve(v, pos)
      [] c = "Turbine" /\ k = 2 -> _updateFootValve(v, pos)
      [] c = "Turbine" /\ k = 3 -> _updateRGNValve(v)
      [] c = "Turbine" /\ k = 4 -> _updateRGUExcitation(v)
      [] c = "Turbine" /\ k = 5 -> _updateSyncCoupler(v)
      [] c = "Turbine" /\ k = 6 -> _updateSEPAM(v)
      [] OTHER -> v

\* the recorded field update method k of component c assigns, if any
Assigns(c, k) ==
    CASE c = "LevelRegulation" /\ k = 1 -> {"FT_VA_TETE"}
      [] c = "HydraulicCentral" /\ k = 1 -> {"TT_HUILE"}
      [] c = "HydraulicCentral" /\ k = 2 -> {"RM_PO_HUILE"}
      [] c = "Turbine" /\ k = 1 -> {"ZSC_VA_TETE"}
      [] c = "Turbine" /\ k = 2 -> {"ZSC_VA_PIED"}
      [] c = "Turbine" /\ k = 3 -> {"ST_TURB"}
      [] OTHER -> {}

\* hydro.py: world = Process(config), which builds the fields, pushes all
\* of them and registers the orchestrator process; then the components are
\* constructed in WireOrder.  config.toml is not part of the repository:
\* the direction of every cycle field, the commands and the setpoint are
\* any it can give.
InitHydro ==
    /\ KernelIdle
    /\ CompIdle
    /\ ScalIdle
    /\ FluidIdle
    /\ MonIdle
    /\ BootIdle
    /\ WireIdle
    /\ ConfIdle
    /\ FilterIdle
    /\ \E d \in [CycleFields -> {INPUT_BIT, OUTPUT_BIT}] :
          hDir = [f \in HFields |->
                    IF f \in CycleFields THEN d[f] ELSE OUTPUT_BIT]
    /\ \E ot \in BOOLEAN, op \in BOOLEAN, rgn \in RgnValues, oil \in BOOLEAN :
          hv = [f \in HFields |->
                  CASE f = "CMDO_VA_TETE" -> ot
                    [] f = "CMDO_VA_PIED" -> op
                    [] f \in {"CMDC_VA_TETE", "CMDC_VA_PIED"} -> FALSE
                    [] f \in {"ZSC_VA_TETE", "ZSC_VA_PIED"} -> TRUE
                    [] f = "ZT_VA_RGN" -> rgn
                    [] f = "CMD_PO_HUILE" -> oil
                    [] f \in {"ZSO_VA_TETE", "ZSO_VA_PIED"} -> FALSE
                    [] f = "AUTORIZ_CPL" -> FALSE
                    [] f = "RM_PO_HUILE" -> FALSE
                    [] f = "TT_HUILE" -> MIN_OIL_TEMPERATURE
                    [] OTHER -> 0]
    /\ hStore = hv
    /\ hPos = [head |-> 0, foot |-> 0]
    /\ hQueue = [k \in 1 .. (Len(WireOrder) + 1) |->
                   [time |-> 0,
                    proc |-> IF k = 1 THEN "O" ELSE WireOrder[k - 1]]]
    /\ hNow = 0
    /\ hRunning = "none"
    /\ hPc = 0
    /\ hWrote = [f \in CycleFields |-> [tick |-> -1, val |-> hv[f]]]

HydroFrame ==
    UNCHANGED <<kernelVars, compVars, scalVars, fluidVars, monVars, bootVars,
                wireVars, confVars, filtVars, hDir>>

\* a generator runs until its yield: the scheduler resumes the next
\* process only when no process holds control
CanResumeMut == TRUE
CanResume == hRunning = "none"

\* Environment.step()
HydroResume ==
    /\ HydroFrame
    /\ CanResume
    /\ hQueue # <<>>
    /\ Head(hQueue).time <= MaxTick
    /\ hNow' = Head(hQueue).time
    /\ hRunning' = Head(hQueue).proc
    /\ hPc' = 1
    /\ hQueue' = Tail(hQueue)
    /\ UNCHANGED <<hv, hStore, hPos, hWrote>>

\* Process.process: after the first cycle _publish_fields(), then
\* _retrieve_fields() and yield env.timeout(1)
HydroOrch ==
    /\ HydroFrame
    /\ hRunning = "O"
    /\ LET pushed == [f \in HFields |->
                        IF hNow > 0 /\ hDir[f] = OUTPUT_BIT
                        THEN hv[f] ELSE hStore[f]]
       IN  /\ hStore' = pushed
           /\ hv' = [f \in HFields |->
                       IF hDir[f] = INPUT_BIT THEN pushed[f] ELSE hv[f]]
    /\ hRunning' = "none"
    /\ hPc' = 0
    /\ hQueue' = Timeout(hQueue, hNow, OrchTimeout, "O")
    /\ UNCHANGED <<hPos, hNow, hWrote>>

\* one update method of the component that holds control; after the last
\* one the process yields env.timeout(UPDATE_TICK)
HydroUpdate(c) ==
    /\ HydroFrame
    /\ hRunning = c
    /\ LET pos == IF c = "Turbine" /\ hPc = 1
                  THEN [hPos EXCEPT !.head = ValveMove(hPos.head,
                           hv["CMDO_VA_TETE"], hv["CMDC_VA_TETE"])]
                  ELSE IF c = "Turbine" /\ hPc = 2
                  THEN [hPos EXCEPT !.foot = ValveMove(hPos.foot,
                           hv["CMDO_VA_PIED"], hv["CMDC_VA_PIED"])]
                  ELSE hPos
           v == Update(c, hPc, hv, pos)
       IN  /\ hPos' = pos
           /\ hv' = v
           /\ hWrote' = [f \in DOMAIN hWrote |->
                           IF f \in Assigns(c, hPc)
                           THEN [tick |-> hNow, val |-> v[f]]
                           ELSE hWrote[f]]
    /\ IF hPc < Methods(c)
       THEN /\ hPc' = hPc + 1
            /\ UNCHANGED <<hRunning, hQueue>>
       ELSE /\ hPc' = 0
            /\ hRunning' = "none"
            /\ hQueue' = Timeout(hQueue, hNow, DefaultUpdateTick, c)
    /\ UNCHANGED <<hStore, hNow>>

NextHydro ==
    \/ HydroResume
    \/ HydroOrch
    \/ \E c \in WComponents : HydroUpdate(c)

SpecHydro == InitHydro /\ [][NextHydro]_vars

\* the update methods the claims speak of, as steps
LevelGatingStep == hRunning = "LevelRegulation" /\ hPc = 1 /\ hPc' = 2
TurbineSpeedStep == hRunning = "Turbine" /\ hPc = 3 /\ hPc' = 4
WarmingStep == hRunning = "Cooling" /\ hPc = 2 /\ hPc' = 0

\* field f holds what a component wrote into it at tick t
HoldsWriteOf(f, t) == hWrote[f].tick = t /\ hv[f] = hWrote[f].val

LaggedOrPulled(f) ==
    IF hDir[f] = INPUT_BIT THEN hv[f] = hStore[f]
    ELSE HoldsWriteOf(f, hNow - 1)

Owned(c) ==
    CASE c = "LevelRegulation" -> {"FT_VA_TETE"}
      [] c = "HydraulicCentral" -> {"TT_HUILE", "RM_PO_HUILE"}
      [] c = "Cooling" -> {"TT_EAU", "TT_ECHAUFF"}
      [] c = "Turbine" -> {"ZSO_VA_TETE", "ZSC_VA_TETE", "ZSO_VA_PIED",
                           "ZSC_VA_PIED", "ST_TURB", "FQT_ALTERN",
                           "VT_ALTERN", "AUTORIZ_CPL", "JT_ALTERN",
                           "COURANT1", "COURANT2", "COURANT3", "FREQ"}

\* what a step may do while component c holds control: run its next update
\* method, or after the last one give up control with the process
\* rescheduled one update period later
NextMethodOf(c) ==
    \/ hRunning' = c /\ hPc' = hPc + 1 /\ hQueue' = hQueue
    \/ /\ hRunning' = "none"
       /\ hPc = Methods(c)
       /\ hQueue' = Timeout(hQueue, hNow, DefaultUpdateTick, c)

\* a step taken while component c holds control touches nothing but c's
\* own fields and position
HeldStep(c) ==
    /\ NextMethodOf(c)
    /\ hNow' = hNow
    /\ hStore' = hStore
    /\ \A f \in HFields \ Owned(c) : hv'[f] = hv[f]

\* C25: an update step is atomic.  While a component holds control every
\* step is its next update method: no other process is resumed, the clock,
\* the store and the fields of other components stay as they are, and
\* control is given up only at the yield after the last method.  Resuming
\* a process changes no field, and the orchestrator's push and pull run
\* only while it holds control.
C25_AtomicUpdate ==
    /\ [][(hRunning \in WComponents) => HeldStep(hRunning)]_vars
    /\ [][hRunning = "none" => (hv' = hv /\ hStore' = hStore)]_vars
    /\ [][hRunning = "O" => (hRunning' = "none" /\ hPos' = hPos)]_vars

\* Turbine is between its foot valve and its speed update in a tick after
\* the first, with every other process waiting for the next tick
C25_Witness ==
    /\ hRunning = "Turbine" /\ hPc = 3 /\ hNow >= 1
    /\ Len(hQueue) = Len(WireOrder)
    /\ \A k \in 1 .. Len(hQueue) : hQueue[k].time = hNow + 1

\* C38: LevelRegulation and Turbine agree on the working threshold of the
\* regulation valve: in every tick the head flow LevelRegulation wrote is
\* non-zero if and only if the speed Turbine writes in that tick is non-zero.
C38_ThresholdAgreement ==
    [][TurbineSpeedStep
         => ((hv'["FT_VA_TETE"] # 0) <=> (hv'["ST_TURB"] # ST_TURB_MIN))]_vars

\* Turbine.process, one pass of the loop body: the six update methods in
\* order, each on the fields the one before left
TurbineBody(v, pos) ==
    LET p1 == [pos EXCEPT !.head = ValveMove(pos.head, v["CMDO_VA_TETE"],
                                             v["CMDC_VA_TETE"])]
        v1 == _updateHeadValve(v, p1)
        p2 == [p1 EXCEPT !.foot = ValveMove(p1.foot, v1["CMDO_VA_PIED"],
                                            v1["CMDC_VA_PIED"])]
        v2 == _updateFootValve(v1, p2)
        v3 == _updateRGNValve(v2)
        v4 == _updateRGUExcitation(v3)
        v5 == _updateSyncCoupler(v4)
    IN  [v |-> _updateSEPAM(v5), pos |-> p2]

\* the number of consecutive passes a command has been found true, counted
\* up to the passes a full stroke takes
Held(n, cmd) == IF cmd THEN (IF n < ValveSteps THEN n + 1 ELSE n) ELSE 0

\* the plant fields as the configuration of a standing plant gives them
StandingPlant ==
    [f \in HFields |->
        CASE f \in {"ZSC_VA_TETE", "ZSC_VA_PIED"} -> TRUE
          [] f \in DigitalFields -> FALSE
          [] f = "TT_HUILE" -> MIN_OIL_TEMPERATURE
          [] OTHER -> 0]

NoHeld == [openHead |-> 0, closeHead |-> 0, openFoot |-> 0, closeFoot |-> 0]

\* a Turbine constructed over a standing plant, its process registered and
\* not yet run; the valve commands are any the configuration can give
InitValve ==
    /\ KernelIdle
    /\ CompIdle
    /\ ScalIdle
    /\ FluidIdle
    /\ MonIdle
    /\ BootIdle
    /\ WireIdle
    /\ ConfIdle
    /\ FilterIdle
    /\ hDir = [f \in HFields |-> OUTPUT_BIT]
    /\ \E co \in BOOLEAN, cc \in BOOLEAN, fo \in BOOLEAN, fc \in BOOLEAN :
          hv = [StandingPlant EXCEPT !["CMDO_VA_TETE"] = co,
                                     !["CMDC_VA_TETE"] = cc,
                                     !["CMDO_VA_PIED"] = fo,
                                     !["CMDC_VA_PIED"] = fc]
    /\ hStore = hv
    /\ hPos = [head |-> 0, foot |-> 0]
    /\ hQueue = <<>>
    /\ hNow = 0
    /\ hRunning = "Turbine"
    /\ hPc = 1
    /\ hWrote = NoHeld

\* the Turbine process is resumed, runs the loop body and yields
TurbineRun ==
    /\ HydroFrame
    /\ hRunning = "Turbine"
    /\ LET r == TurbineBody(hv, hPos)
       IN  /\ hv' = r.v
           /\ hPos' = r.pos
    /\ hWrote' =
         [openHead |-> Held(hWrote.openHead, hv["CMDO_VA_TETE"]),
          closeHead |-> Held(hWrote.closeHead,
                             ~hv["CMDO_VA_TETE"] /\ hv["CMDC_VA_TETE"]),
          openFoot |-> Held(hWrote.openFoot, hv["CMDO_VA_PIED"]),
          closeFoot |-> Held(hWrote.closeFoot,
                             ~hv["CMDO_VA_PIED"] /\ hv["CMDC_VA_PIED"])]
    /\ hRunning' = "none"
    /\ hPc' = 0
    /\ UNCHANGED <<hStore, hQueue, hNow>>

\* between two passes the valve commands take any values, and the process
\* is due again
ValveCommands(co, cc, fo, fc) ==
    /\ HydroFrame
    /\ hRunning = "none"
    /\ hv' = [hv EXCEPT !["CMDO_VA_TETE"] = co, !["CMDC_VA_TETE"] = cc,
                        !["CMDO_VA_PIED"] = fo, !["CMDC_VA_PIED"] = fc]
    /\ hRunning' = "Turbine"
    /\ hPc' = 1
    /\ UNCHANGED <<hStore, hPos, hQueue, hNow, hWrote>>

NextValve ==
    \/ TurbineRun
    \/ \E co \in BOOLEAN, cc \in BOOLEAN, fo \in BOOLEAN, fc \in BOOLEAN :
          ValveCommands(co, cc, fo, fc)

SpecValve == InitValve /\ [][NextValve]_vars

\* the Turbine has run and yielded
AfterTurbineStep == hRunning = "none" /\ hPc = 0 /\ hWrote # <<>>

\* C34: the valve positions stay in [0, 100]; after every Turbine update
\* step the open switch is true exactly at 100 and the closed switch exactly
\* at 0, so never both; with both commands true the valve opens.
C34_ValveLimits ==
    /\ [](hPos # <<>> => /\ hPos.head \in 0 .. ValveSteps
                         /\ hPos.foot \in 0 .. ValveSteps)
    /\ [](AfterTurbineStep
            => /\ hv["ZSO_VA_TETE"] <=> (hPos.head = ValveSteps)
               /\ hv["ZSC_VA_TETE"] <=> (hPos.head = 0)
               /\ hv["ZSO_VA_PIED"] <=> (hPos.foot = ValveSteps)
               /\ hv["ZSC_VA_PIED"] <=> (hPos.foot = 0)
               /\ ~(hv["ZSO_VA_TETE"] /\ hv["ZSC_VA_TETE"])
               /\ ~(hv["ZSO_VA_PIED"] /\ hv["ZSC_VA_PIED"]))
    /\ [][(TurbineRun /\ hv["CMDO_VA_TETE"] /\ hv["CMDC_VA_TETE"]
                      /\ hPos.head < ValveSteps)
            => hPos'.head > hPos.head]_vars
    /\ [][(TurbineRun /\ hv["CMDO_VA_PIED"] /\ hv["CMDC_VA_PIED"]
                      /\ hPos.foot < ValveSteps)
            => hPos'.foot > hPos.foot]_vars

\* both commands of the head valve were true and it has reached the open
\* limit; the foot valve is part-way
C34_Witness ==
    /\ AfterTurbineStep
    /\ hv["CMDO_VA_TETE"] /\ hv["CMDC_VA_TETE"]
    /\ hPos.head = ValveSteps /\ hv["ZSO_VA_TETE"] /\ ~hv["ZSC_VA_TETE"]
    /\ hPos.foot = 2 /\ ~hv["ZSO_VA_PIED"] /\ ~hv["ZSC_VA_PIED"]

\* C35: a valve whose open command has been true for 6 consecutive Turbine
\* steps has its open switch true, and it stays so while the command holds;
\* one whose close command alone has been true for 6 steps has its closed
\* switch true; with neither command true the position does not change.
C35_ValveStroke ==
    /\ [](AfterTurbineStep
            => /\ hWrote.openHead >= ValveSteps => hv["ZSO_VA_TETE"]
               /\ hWrote.closeHead >= ValveSteps => hv["ZSC_VA_TETE"]
               /\ hWrote.openFoot >= ValveSteps => hv["ZSO_VA_PIED"]
               /\ hWrote.closeFoot >= ValveSteps => hv["ZSC_VA_PIED"])
    /\ [][(TurbineRun /\ ~hv["CMDO_VA_TETE"] /\ ~hv["CMDC_VA_TETE"])
            => hPos'.head = hPos.head]_vars
    /\ [][(TurbineRun /\ ~hv["CMDO_VA_PIED"] /\ ~hv["CMDC_VA_PIED"])
            => hPos'.foot = hPos.foot]_vars

\* the head valve has just closed at the sixth step of a close command
\* given when it was fully open
C35_Witness ==
    /\ AfterTurbineStep
    /\ hWrote.closeHead = ValveSteps
    /\ hv["ZSC_VA_TETE"] /\ hPos.head = 0
    /\ hWrote.openFoot = ValveSteps /\ hv["ZSO_VA_PIED"]

\* regulation-valve positions from closed to fully open, with the working
\* threshold and its neighbour
RgnPositions == {0, 2, 3, 100}

\* head flows in tenths: none, the flow of the working threshold, the three
\* around the coupling window (1470, 1500 and 1530 RPM) and the flow of a
\* fully open regulation valve
HeadFlows == {0, 10, 49, 50, 51, 500}

\* VSP_ALTERN_INITIAL and VSP_ALTERN_EXCITATING_TENSION
Excitations == {0, 50}

\* the plant with the fields the Turbine reads for its speed set
WithFlow(v, rgn, ft, vsp) ==
    [v EXCEPT !["ZT_VA_RGN"] = rgn, !["FT_VA_TETE"] = ft,
              !["VSP_ALTERN"] = vsp]

\* a Turbine constructed over a plant with any regulation-valve position,
\* head flow, excitation setpoint and coupling authorization, its process
\* registered and not yet run; the valve commands are off
InitTurbine ==
    /\ KernelIdle
    /\ CompIdle
    /\ ScalIdle
    /\ FluidIdle
    /\ MonIdle
    /\ BootIdle
    /\ WireIdle
    /\ ConfIdle
    /\ FilterIdle
    /\ hDir = [f \in HFields |-> OUTPUT_BIT]
    /\ \E rgn \in RgnPositions, ft \in HeadFlows, vsp \in Excitations,
          cpl \in BOOLEAN :
          hv = [WithFlow(StandingPlant, rgn, ft, vsp)
                  EXCEPT !["AUTORIZ_CPL"] = cpl]
    /\ hStore = hv
    /\ hPos = [head |-> 0, foot |-> 0]
    /\ hQueue = <<>>
    /\ hNow = 0
    /\ hRunning = "Turbine"
    /\ hPc = 1
    /\ hWrote = NoHeld

\* between two passes the regulation valve, the head flow and the excitation
\* setpoint take any values, and the process is due again
FlowInputs(rgn, ft, vsp) ==
    /\ HydroFrame
    /\ hRunning = "none"
    /\ hv' = WithFlow(hv, rgn, ft, vsp)
    /\ hRunning' = "Turbine"
    /\ hPc' = 1
    /\ UNCHANGED <<hStore, hPos, hQueue, hNow, hWrote>>

NextTurbine ==
    \/ TurbineRun
    \/ \E rgn \in RgnPositions, ft \in HeadFlows, vsp \in Excitations :
          FlowInputs(rgn, ft, vsp)

SpecTurbine == InitTurbine /\ [][NextTurbine]_vars

\* C36: after every Turbine update step the turbine speed lies in
\* [ST_TURB_MIN, ST_TURB_MAX], whatever the regulation-valve position, the
\* head flow and the coupling authorization.
C36_SpeedInRange ==
    AfterTurbineStep => hv["ST_TURB"] \in ST_TURB_MIN .. ST_TURB_MAX

\* C37: after every Turbine update step the coupling is authorized exactly
\* when the speed of that step divided by 30 is strictly between 49 and
\* 51 Hz, the power is 0 when it is not authorized, and the three phase
\* currents are equal.
C37_CouplingWindow ==
    AfterTurbineStep
      => /\ hv["AUTORIZ_CPL"]
              <=> /\ COUPLAGE_MIN * FACTOR_ST_TURB_FQT_ALTERN < hv["ST_TURB"]
                  /\ hv["ST_TURB"] < COUPLAGE_MAX * FACTOR_ST_TURB_FQT_ALTERN
         /\ ~hv["AUTORIZ_CPL"] => hv["JT_ALTERN"] = 0
         /\ hv["COURANT1"] = hv["COURANT2"]
         /\ hv["COURANT2"] = hv["COURANT3"]

\* the turbine runs at 1500 RPM under excitation: the coupling is
\* authorized, power is generated and current flows
C37_Witness ==
    /\ AfterTurbineStep
    /\ hv["ST_TURB"] = ST_TURB_MAX
    /\ hv["AUTORIZ_CPL"]
    /\ hv["JT_ALTERN"] > 0
    /\ hv["COURANT1"] > 0

\* the fields of the hydraulic central
OilFields == {"CMD_PO_HUILE", "RM_PO_HUILE", "TT_HUILE"}

\* the keys of the hydraulic central a gateway can write
PumpKeys == {"CMD_PO_HUILE", "RM_PO_HUILE"}

\* oil temperatures a configuration can give: around both limits, inside
\* and outside
OilTemps == (MIN_OIL_TEMPERATURE - 2 .. MIN_OIL_TEMPERATURE + 2)
            \cup (MAX_OIL_TEMPERATURE - 2 .. MAX_OIL_TEMPERATURE + 2)

\* hydro.py over a standing plant whose hydraulic central has any oil
\* temperature, pump command and running feedback, the command and the
\* feedback tagged Input or Output
InitOil ==
    /\ KernelIdle
    /\ CompIdle
    /\ ScalIdle
    /\ FluidIdle
    /\ MonIdle
    /\ BootIdle
    /\ WireIdle
    /\ ConfIdle
    /\ FilterIdle
    /\ \E d \in [PumpKeys -> {INPUT_BIT, OUTPUT_BIT}] :
          hDir = [f \in HFields |->
                    IF f \in PumpKeys THEN d[f] ELSE OUTPUT_BIT]
    /\ \E t \in OilTemps, cmd \in BOOLEAN, rm \in BOOLEAN :
          hv = [StandingPlant EXCEPT !["TT_HUILE"] = t,
                                     !["CMD_PO_HUILE"] = cmd,
                                     !["RM_PO_HUILE"] = rm]
    /\ hStore = hv
    /\ hPos = [head |-> 0, foot |-> 0]
    /\ hQueue = [k \in 1 .. (Len(WireOrder) + 1) |->
                   [time |-> 0,
                    proc |-> IF k = 1 THEN "O" ELSE WireOrder[k - 1]]]
    /\ hNow = 0
    /\ hRunning = "none"
    /\ hPc = 0
    /\ hWrote = [f \in OilFields |-> [tick |-> -1, val |-> hv[f]]]

\* the protocol gateway writes an Input-tagged key of the store between
\* two ticks
GatewayWrite(f, b) ==
    /\ HydroFrame
    /\ hRunning = "none"
    /\ hQueue # <<>>
    /\ Head(hQueue).proc = "O"
    /\ Head(hQueue).time <= MaxTick
    /\ hDir[f] = INPUT_BIT
    /\ hStore' = [hStore EXCEPT ![f] = b]
    /\ UNCHANGED <<hv, hPos, hQueue, hNow, hRunning, hPc, hWrote>>

NextOil ==
    \/ HydroResume
    \/ HydroOrch
    \/ \E c \in WComponents : HydroUpdate(c)
    \/ \E f \in PumpKeys, b \in BOOLEAN : GatewayWrite(f, b)

SpecOil == InitOil /\ [][NextOil]_vars

\* the two update methods of the hydraulic central, as steps
OilTemperatureStep ==
    hRunning = "HydraulicCentral" /\ hPc = 1 /\ hPc' = 2
OilPumpStep == hRunning = "HydraulicCentral" /\ hPc = 2 /\ hPc' = 0

\* one degree up or down from t, stopping at the limits
OneDegree(t, up) ==
    IF up THEN (IF t = MAX_OIL_TEMPERATURE THEN t ELSE t + 1)
    ELSE (IF t = MIN_OIL_TEMPERATURE THEN t ELSE t - 1)

\* C32: after every HydraulicCentral update step the oil temperature lies
\* in [MIN_OIL_TEMPERATURE, MAX_OIL_TEMPERATURE], whatever it was before;
\* from a value inside the range it moves by exactly one degree, up with
\* the running feedback true and down with it false, stopping at the limits.
C32_OilTemperatureRange ==
    /\ [][OilTemperatureStep
            => hv'["TT_HUILE"]
                 \in MIN_OIL_TEMPERATURE .. MAX_OIL_TEMPERATURE]_vars
    /\ [][(OilTemperatureStep
             /\ hv["TT_HUILE"] >= MIN_OIL_TEMPERATURE
             /\ hv["TT_HUILE"] <= MAX_OIL_TEMPERATURE)
            => hv'["TT_HUILE"]
                 = OneDegree(hv["TT_HUILE"], hv["RM_PO_HUILE"])]_vars
    /\ [][OilPumpStep
            => (hv'["TT_HUILE"] = hv["TT_HUILE"]
                /\ hv["TT_HUILE"] >= MIN_OIL_TEMPERATURE
                /\ hv["TT_HUILE"] <= MAX_OIL_TEMPERATURE)]_vars

\* the pump runs and the oil, configured below the range, has been warmed
\* for three ticks
C32_Witness ==
    /\ hRunning = "HydraulicCentral" /\ hPc = 2 /\ hNow = 2
    /\ hv["RM_PO_HUILE"]
    /\ hv["TT_HUILE"] = MIN_OIL_TEMPERATURE + 2
    /\ hWrote["TT_HUILE"] = [tick |-> 2, val |-> MIN_OIL_TEMPERATURE + 2]
    /\ hStore["TT_HUILE"] = MIN_OIL_TEMPERATURE + 1

\* what decides the direction of the temperature in the step of tick t >= 1
\* when the feedback field is tagged io: the command the step of tick t-1
\* copied, or the store's value when the feedback is an Input field
Deciding(io) ==
    IF io = INPUT_BIT THEN hStore["RM_PO_HUILE"]
    ELSE hWrote["RM_PO_HUILE"].val

\* the temperature step of a tick after the first; the feedback was last
\* written by the step of the tick before, from the command it found
LaterOilTemperatureStep ==
    /\ OilTemperatureStep
    /\ hNow >= 1
    /\ hWrote["RM_PO_HUILE"].tick = hNow - 1

DiscToJSON(cur) ==
    IF cur = "absent"
    THEN [err |-> "AttributeError", tok |-> [quoted |-> FALSE, text |-> NoKey]]
    ELSE [err |-> "none", tok |-> [quoted |-> TRUE, text |-> cur]]

\* DisconnectorStateField.fromJSON: DisconnectorStateType[json.loads(value)]
\* looks the member up by name, and the assignment goes through __setattr__
DiscFromJSON(cur, obs, tok) ==
    IF tok.text = NoKey THEN [val |-> cur, err |-> "TypeError"]
    ELSE IF ~tok.quoted \/ tok.text \notin DiscStates
         THEN [val |-> cur, err |-> "KeyError"]
         ELSE DiscSetAttr(cur, obs, tok.text)

\* the store value a gateway writes for state s
DiscToken(s) == [quoted |-> TRUE, text |-> s]

\* C31: on the disconnector field the program has built, a pull goes through
\* the transition guard: pulling Open into a Closed field whose observer
\* vetoes leaves it Closed without error, pulling any value into a Broken
\* field raises the transition error, and a field in state Open or Closed
\* is unchanged by serializing and then deserializing it.
C31_PullThroughGuard ==
    (cfgDisc.decl /\ phase # "boot") =>
        /\ cfgDisc.init = "CLOSED"
             => DiscFromJSON(dValue, "reject", DiscToken("OPEN"))
                  = [val |-> "CLOSED", err |-> "none"]
        /\ cfgDisc.init = "BROKEN"
             => \A obs \in Observers, v \in DiscStates :
                   DiscFromJSON(dValue, obs, DiscToken(v))
                     = [val |-> "BROKEN", err |-> "ValueError"]
        /\ cfgDisc.init \in {"OPEN", "CLOSED"}
             => \A obs \in Observers :
                   /\ DiscToJSON(dValue).err = "none"
                   /\ DiscFromJSON(dValue, obs, DiscToJSON(dValue).tok)
                        = [val |-> cfgDisc.init, err |-> "none"]

(***************************************************************************)
(* The anomaly-score filter of the detection engine                        *)
(* (servers/detection_engine/ml_anomaly_score.py).  The engine builds one  *)
(* SyscallAnomalyModel with ewma_alpha 0.75, filtering_size 5 and          *)
(* filtering_nb 2, and on_message gives every score of the model to        *)
(* filter_score.  Scores are counted in units of 1 / 4^MaxCalls, so that   *)
(* every exponentially weighted average of MaxCalls raw scores is a whole  *)
(* number of units and the division by four below is exact.                *)
(***************************************************************************)
MaxCalls == 7       \* filter_score is called this many times

filtering_size == 5
filtering_nb == 2
EwmaNum == 3        \* ewma_alpha = 0.75 = EwmaNum / EwmaDen
EwmaDen == 4

RECURSIVE Pow(_, _)
Pow(b, n) == IF n = 0 THEN 1 ELSE b * Pow(b, n - 1)

ScoreUnit == Pow(EwmaDen, MaxCalls)

\* the raw scores the model gives: 0, 1 and 2
RawScores == {0, ScoreUnit, 2 * ScoreUnit}

SeqValues(h) == {h[i] : i \in DOMAIN h}
MaxOf(S) == CHOOSE m \in S : \A x \in S : x <= m

\* np.sort(h)[-n]: the n-th largest entry of h
NthLargest(h, n) ==
    CHOOSE x \in SeqValues(h) :
        /\ Cardinality({i \in DOMAIN h : h[i] > x}) < n
        /\ Cardinality({i \in DOMAIN h : h[i] >= x}) >= n

\* the exponentially weighted average of the raw score and the previous one
Ewma(score, last) ==
    IF ~last.set THEN score
    ELSE (EwmaNum * score + (EwmaDen - EwmaNum) * last.v) \div EwmaDen

\* the value returned once the filtered score is in the window h
Returned(h, cfg) ==
    IF Len(h) = cfg.size /\ h[Len(h)] > MaxOf(SeqValues(SubSeq(h, 1, Len(h) - 1)))
    THEN NthLargest(h, cfg.nb)
    ELSE h[Len(h)]

WindowMut(h, cfg) == IF Len(h) > cfg.size THEN Tail(h) ELSE h
\* the window kept for the next call: a full window drops its oldest entry
Window(h, cfg) == IF Len(h) = cfg.size THEN Tail(h) ELSE h

InitFilter ==
    /\ KernelIdle
    /\ CompIdle
    /\ ScalIdle
    /\ FluidIdle
    /\ MonIdle
    /\ BootIdle
    /\ WireIdle
    /\ ConfIdle
    /\ HydroIdle
    /\ fCfg = [size |-> filtering_size, nb |-> filtering_nb]
    /\ anomaly_score_history = <<>>
    /\ last_ewma_value = None
    /\ fRet = NoCall

\* SyscallAnomalyModel.filter_score(anomaly_score)
filter_score(anomaly_score) ==
    LET filtered == Ewma(anomaly_score, last_ewma_value)
        h == Append(anomaly_score_history, filtered)
    IN /\ fRet.calls < MaxCalls
       /\ fCfg # NoFilter
       /\ last_ewma_value' = [set |-> TRUE, v |-> filtered]
       /\ anomaly_score_history' = Window(h, fCfg)
       /\ fRet' = [calls |-> fRet.calls + 1, raw |-> anomaly_score,
                   ret |-> Returned(h, fCfg), err |-> "none",
                   prev |-> anomaly_score_history]
       /\ UNCHANGED <<kernelVars, compVars, scalVars, fluidVars, monVars,
                      bootVars, wireVars, confVars, hydroVars, fCfg>>

NextFilter == \E s \in RawScores : filter_score(s)

SpecFilter == InitFilter /\ [][NextFilter]_vars

\* C39: after every call of filter_score the history holds at most
\* filtering_size - 1 entries, the first call returns the raw score
\* unchanged, and the returned value is at most the largest of the scores
\* held in the window before and after the call.
C39_FilterWindow ==
    fRet.calls >= 1 =>
        /\ Len(anomaly_score_history) <= fCfg.size - 1
        /\ fRet.calls = 1 => fRet.ret = fRet.raw
        /\ fRet.ret <= MaxOf(SeqValues(fRet.prev)
                             \cup SeqValues(anomaly_score_history))

\* a call on a full window whose new score, the largest, was replaced
C39_Witness ==
    /\ fRet.calls > filtering_size
    /\ Len(anomaly_score_history) = filtering_size - 1
    /\ fRet.ret < last_ewma_value.v
    /\ fRet.ret = NthLargest(Append(fRet.prev, last_ewma_value.v), filtering_nb)

====
